---------------------------- MODULE Spec2Model ----------------------------
(***************************************************************************)
(* A model of the layer computation core of convnetjs (TypeScript port):   *)
(* the Vol container, the layers' forward / backward / toJSON / fromJSON   *)
(* and the Net that chains them.                                           *)
(*                                                                         *)
(* Numbers are integers: every weight, input and upstream gradient the     *)
(* model enumerates is integer valued, and the layers modelled numerically *)
(* (conv, fc, relu, pool, maxout, dropout, the loss layers) only add,      *)
(* multiply and compare, so their arithmetic is exact.  Arrays are         *)
(* sequences: the code's index k is the sequence index k + 1.              *)
(***************************************************************************)
EXTENDS Integers, Sequences, FiniteSets, TLC

(***************************************************************************)
(* Bounds of the model.                                                    *)
(***************************************************************************)
\* the input / upstream-gradient / weight patterns enumerated: 1..MaxSeed
MaxSeed == 3
\* vectors up to this length are enumerated in full over Vals
MaxFullLen == 2
\* values of fully enumerated vectors: -MaxVal..MaxVal
MaxVal == 1
\* the layer sizes the output-size computation is run on
MaxIn == 6
MaxFilter == 3
MaxStride == 2
MaxPad == 1
\* softmax scores reach -MaxScore..MaxScore; Math.exp(x) is Infinity from
\* x = 710 on
MaxScore == 710
\* a net runs another forward / backward cycle while every parameter
\* gradient lies within -MaxGrad..MaxGrad
MaxGrad == 2

VARIABLES
    \* ---- one layer driven by a caller ----
    opt,        \* the options the layer was constructed from
    layer,      \* the layer object (its own fields, parameters included)
    in_act,     \* the Vol handed to forward (layer.in_act), or NoVol
    out_act,    \* the Vol forward produced (layer.out_act), or NoVol
    pc,         \* "new" | "fwd" | "grad" | "bwd", "idle" when a Net is driven
    arg,        \* the caller's copy of the Vol it handed to the last forward,
                \* as it was when handed
    \* ---- a Net driven by a caller ----
    defs,       \* the argument of the last makeLayers call
    wseed,      \* what the random initial weights were drawn from
    layers,     \* net.layers
    acts,       \* acts[0] is the Vol handed to forward, acts[i] the out_act
                \* of layers[i]; empty before the first forward
    op,         \* the last call on the Net other than getParamsAndGrads: "new",
                \* "makeLayers", "forward", "backward", "getCostLoss",
                \* "fromJSON"; "idle" when a layer is driven
    err,        \* what the last call threw: "none", "Error", "TypeError" or
                \* "InvalidCostType"
    console,    \* the messages written by console.log
    calls,      \* the calls the last call on the Net made on its layers, in
                \* order, with the objects handed and returned
    response,   \* what net.getParamsAndGrads() returned to the caller, who
                \* keeps it; empty before the call
    written,    \* the caller's last write into an array of response:
                \* response[entry].params[index] = value
    \* ---- both ----
    training,   \* the is_training flag of the last forward
    rnd,        \* the Math.random() < drop_prob outcomes of the last forward
    target,     \* the y of the last backward / getCostLoss
    reloaded,   \* TRUE once replaced by fromJSON(toJSON())
    ret         \* what the last backward / getCostLoss returned

lvars == <<opt, layer, in_act, out_act, pc, arg>>
nvars == <<defs, wseed, layers, acts, op, err, console, calls, response, written>>
vars == <<lvars, nvars, training, rnd, target, reloaded, ret>>

NoVol == [none |-> TRUE]

(***************************************************************************)
(* Small helpers.                                                          *)
(***************************************************************************)
Max(a, b) == IF a >= b THEN a ELSE b

RECURSIVE SeqSum(_)
SeqSum(s) == IF s = <<>> THEN 0 ELSE s[1] + SeqSum(Tail(s))

\* the sum of f over lo..hi
SumOver(lo, hi, f) == SeqSum([k \in 1..(hi - lo + 1) |-> f[lo + k - 1]])

\* a[k] = v on a Float64Array: an index outside the array stores nothing
StoreAt(a, k, v) == IF k + 1 \in DOMAIN a THEN [a EXCEPT ![k + 1] = v] ELSE a

Vals == (0 - MaxVal)..MaxVal

(***************************************************************************)
(* Numbers that are not integers.  The softmax probabilities, their        *)
(* gradients and losses are kept as terms; NaN is a value of its own; a    *)
(* sum or product with a term (or NaN) is an untracked real number.        *)
(***************************************************************************)
NaN == [nan |-> TRUE]

Real == [real |-> TRUE]

Undefined == [undefined |-> TRUE]

\* a value a backward returns that is the integer n
Val(n) == [num |-> n]

\* n / 2
Half(n) == IF n % 2 = 0 THEN Val(n \div 2) ELSE [halves |-> n]

\* 0.1, the bias a relu-activated fc / conv layer prefers: not an integer, so
\* a layer carrying it is built, serialized and reloaded but never run
ReluBiasPref == [tenths |-> 1]

\* the k-th entry (k from 0) of pattern s: neighbouring entries differ
PatternAt(s, k) == (((k + 1) * s + (s * s)) % 5) - 2

Pattern(s, n) == [k \in 1..n |-> PatternAt(s, k - 1)]

\* the j-th unit vector of length n
OneHot(j, n) == [k \in 1..n |-> IF k = j THEN 1 ELSE 0]

\* the vectors of length n the model enumerates
Vectors(n) ==
    IF n <= MaxFullLen THEN [1..n -> Vals]
    ELSE {Pattern(s, n) : s \in 1..MaxSeed} \cup {OneHot(j, n) : j \in 1..n}

(***************************************************************************)
(* Vol.                                                                    *)
(***************************************************************************)
zeros(n) == [k \in 1..n |-> 0]

\* new Vol(sx, sy, depth, c)
Vol(sx, sy, depth, c) ==
    [sx |-> sx, sy |-> sy, depth |-> depth,
     w |-> [k \in 1..(sx * sy * depth) |-> c],
     dw |-> zeros(sx * sy * depth)]

\* a Vol holding the given weights
VolOf(sx, sy, depth, w) ==
    [sx |-> sx, sy |-> sy, depth |-> depth, w |-> w, dw |-> zeros(Len(w))]

\* the flat index of (x, y, d)
Vol_ix(V, x, y, d) == ((V.sx * y) + x) * V.depth + d

Vol_get(V, x, y, d) == V.w[Vol_ix(V, x, y, d) + 1]

Vol_set(V, x, y, d, v) == [V EXCEPT !.w = StoreAt(V.w, Vol_ix(V, x, y, d), v)]

Vol_get_grad(V, x, y, d) == V.dw[Vol_ix(V, x, y, d) + 1]

Vol_set_grad(V, x, y, d, v) ==
    [V EXCEPT !.dw = StoreAt(V.dw, Vol_ix(V, x, y, d), v)]

Vol_add_grad(V, x, y, d, v) ==
    LET ix == Vol_ix(V, x, y, d)
    IN  IF ix + 1 \in DOMAIN V.dw
        THEN [V EXCEPT !.dw[ix + 1] = V.dw[ix + 1] + v]
        ELSE V

Vol_clone(V) == [sx |-> V.sx, sy |-> V.sy, depth |-> V.depth, w |-> V.w, dw |-> V.dw]

Vol_cloneAndZero(V) == Vol(V.sx, V.sy, V.depth, 0)

Vol_toJSON(V) == [sx |-> V.sx, sy |-> V.sy, depth |-> V.depth, w |-> V.w]

Vol_fromJSON(json) ==
    LET n == json.sx * json.sy * json.depth
    IN  [sx |-> json.sx, sy |-> json.sy, depth |-> json.depth,
         w |-> [k \in 1..n |-> json.w[k]], dw |-> zeros(n)]

(***************************************************************************)
(* ReluLayer.                                                              *)
(***************************************************************************)
\* OutputLayer.constructor: the output has the input's dimensions
OutputLayer_new(layerType, o) ==
    [layer_type |-> layerType,
     out_sx |-> o.in_sx, out_sy |-> o.in_sy, out_depth |-> o.in_depth]

ReluLayer_new(o) == OutputLayer_new("relu", o)

\* forward: the Vol left in this.out_act (prev: what out_act held before).
\* The assignment of out_act and the return sit inside the loop over i, so
\* the loop body runs for i = 0 only, and not at all for an empty Vol.
ReluLayer_forward(L, V, prev) ==
    LET V2 == Vol_clone(V)
        N  == Len(V.w)
    IN  IF 0 < N
        THEN IF V2.w[1] < 0
             THEN [V2 EXCEPT !.w = [k \in 1..N |-> IF k = 1 THEN 0 ELSE V2.w[k]]]
             ELSE V2
        ELSE prev

ReluLayer_backward(L, V, V2) ==
    LET N == Len(V.w)
    IN  [V EXCEPT !.dw = [k \in 1..N |-> IF V2.w[k] <= 0 THEN 0 ELSE V2.dw[k]]]

ReluLayer_toJSON(L) ==
    [layer_type |-> L.layer_type,
     out_sx |-> L.out_sx, out_sy |-> L.out_sy, out_depth |-> L.out_depth]

ReluLayer_fromJSON(json) ==
    [layer_type |-> json.layer_type,
     out_sx |-> json.out_sx, out_sy |-> json.out_sy, out_depth |-> json.out_depth]

(***************************************************************************)
(* ConvLayer and FullyConnLayer (DotproductsLayer).                        *)
(***************************************************************************)
Has(o, f) == f \in DOMAIN o

\* the weights new Vol(sx, sy, depth) draws at random for filter i
RandomVol(sx, sy, depth, seed, i) ==
    VolOf(sx, sy, depth, Pattern(((seed + i) % 5) + 1, sx * sy * depth))

\* the size rounded up, the final incomplete application kept
OutSize_roundedUp(in, pad, f, stride) ==
    ((in + pad * 2 - f + stride - 1) \div stride) + 1

\* Math.floor((in + pad * 2 - f) / stride + 1), stride >= 1
OutSize(in, pad, f, stride) == ((in + pad * 2 - f) \div stride) + 1

\* "x = -this.pad" and "x += stride" once per output column (row): where the
\* window of output column (row) a starts
WindowStart(L, a) == (0 - L.pad) + a * L.stride

ConvLayer_new(o, seed) ==
    LET sx     == o.sx
        sy     == IF Has(o, "sy") THEN o.sy ELSE sx
        stride == IF Has(o, "stride") THEN o.stride ELSE 1
        pad    == IF Has(o, "pad") THEN o.pad ELSE 0
        bias   == IF Has(o, "bias_pref") THEN o.bias_pref ELSE 0
    IN  [layer_type |-> "conv",
         l1_decay_mul |-> IF Has(o, "l1_decay_mul") THEN o.l1_decay_mul ELSE 0,
         l2_decay_mul |-> IF Has(o, "l2_decay_mul") THEN o.l2_decay_mul ELSE 1,
         out_depth |-> o.filters,
         sx |-> sx, in_depth |-> o.in_depth, in_sx |-> o.in_sx, in_sy |-> o.in_sy,
         sy |-> sy, stride |-> stride, pad |-> pad,
         out_sx |-> OutSize(o.in_sx, pad, sx, stride),
         out_sy |-> OutSize(o.in_sy, pad, sy, stride),
         filters |-> [i \in 1..o.filters |->
                         RandomVol(sx, sy, o.in_depth, seed, i - 1)],
         biases |-> Vol(1, 1, o.filters, bias)]

\* the window with coordinates outside the input clamped to its border
ConvLayer_window_clamped(f, V, x, y) ==
    SumOver(0, f.sy - 1, [fy \in 0..(f.sy - 1) |->
      SumOver(0, f.sx - 1, [fx \in 0..(f.sx - 1) |->
        LET oy == Max(0, IF y + fy < V.sy THEN y + fy ELSE V.sy - 1)
            ox == Max(0, IF x + fx < V.sx THEN x + fx ELSE V.sx - 1)
        IN  SumOver(0, f.depth - 1, [fd \in 0..(f.depth - 1) |->
                   f.w[((f.sx * fy) + fx) * f.depth + fd + 1]
                     * V.w[((V.sx * oy) + ox) * V.depth + fd + 1]])])])

\* the accumulation of a over fy, fx, fd for the window whose corner is (x, y)
ConvLayer_window(f, V, x, y) ==
    SumOver(0, f.sy - 1, [fy \in 0..(f.sy - 1) |->
      SumOver(0, f.sx - 1, [fx \in 0..(f.sx - 1) |->
        LET oy == y + fy
            ox == x + fx
        IN  IF oy >= 0 /\ oy < V.sy /\ ox >= 0 /\ ox < V.sx
            THEN SumOver(0, f.depth - 1, [fd \in 0..(f.depth - 1) |->
                   f.w[((f.sx * fy) + fx) * f.depth + fd + 1]
                     * V.w[((V.sx * oy) + ox) * V.depth + fd + 1]])
            ELSE 0])])

\* the loops over d, ay, ax from iteration i on (i counts from 0)
RECURSIVE ConvLayer_forward_loop(_, _, _, _)
ConvLayer_forward_loop(L, V, A, i) ==
    IF i >= L.out_depth * L.out_sy * L.out_sx THEN A
    ELSE LET d  == i \div (L.out_sy * L.out_sx)
             ay == (i \div L.out_sx) % L.out_sy
             ax == i % L.out_sx
             x  == WindowStart(L, ax)
             y  == WindowStart(L, ay)
             a  == ConvLayer_window(L.filters[d + 1], V, x, y) + L.biases.w[d + 1]
         IN  ConvLayer_forward_loop(L, V, Vol_set(A, ax, ay, d, a), i + 1)

ConvLayer_forward(L, V) ==
    ConvLayer_forward_loop(L, V, Vol(L.out_sx, L.out_sy, L.out_depth, 0), 0)

\* the loops over fy, fx, fd of backward from iteration j on: st = [fdw, vdw]
RECURSIVE ConvLayer_backward_inner(_, _, _, _, _, _, _)
ConvLayer_backward_inner(st, f, V, x, y, chain_grad, j) ==
    IF j >= f.sy * f.sx * f.depth THEN st
    ELSE LET fy == j \div (f.sx * f.depth)
             fx == (j \div f.depth) % f.sx
             fd == j % f.depth
             oy == y + fy
             ox == x + fx
             ix1 == ((V.sx * oy) + ox) * V.depth + fd
             ix2 == ((f.sx * fy) + fx) * f.depth + fd
             nxt == IF oy >= 0 /\ oy < V.sy /\ ox >= 0 /\ ox < V.sx
                    THEN [fdw |-> [st.fdw EXCEPT ![ix2 + 1] =
                                       st.fdw[ix2 + 1] + V.w[ix1 + 1] * chain_grad],
                          vdw |-> [st.vdw EXCEPT ![ix1 + 1] =
                                       st.vdw[ix1 + 1] + f.w[ix2 + 1] * chain_grad]]
                    ELSE st
         IN  ConvLayer_backward_inner(nxt, f, V, x, y, chain_grad, j + 1)

\* the loops over d, ay, ax of backward: st = [layer, in]
RECURSIVE ConvLayer_backward_loop(_, _, _)
ConvLayer_backward_loop(st, out, i) ==
    LET L == st.layer
    IN  IF i >= L.out_depth * L.out_sy * L.out_sx THEN st
        ELSE LET d  == i \div (L.out_sy * L.out_sx)
                 ay == (i \div L.out_sx) % L.out_sy
                 ax == i % L.out_sx
                 x  == WindowStart(L, ax)
                 y  == WindowStart(L, ay)
                 f  == L.filters[d + 1]
                 chain_grad == Vol_get_grad(out, ax, ay, d)
                 r  == ConvLayer_backward_inner(
                           [fdw |-> f.dw, vdw |-> st.in.dw], f, st.in, x, y,
                           chain_grad, 0)
             IN  ConvLayer_backward_loop(
                     [layer |-> [L EXCEPT !.filters[d + 1].dw = r.fdw,
                                          !.biases.dw[d + 1] =
                                              L.biases.dw[d + 1] + chain_grad],
                      in |-> [st.in EXCEPT !.dw = r.vdw]],
                     out, i + 1)

\* backward with the bias gradients left as they were
\* a conv or fully-connected layer with its parameter gradients at zero
ZeroedParamGrads(L) ==
    [L EXCEPT !.filters = [j \in DOMAIN L.filters |->
                              [L.filters[j] EXCEPT !.dw = zeros(Len(L.filters[j].w))]],
              !.biases = [L.biases EXCEPT !.dw = zeros(Len(L.biases.w))]]

\* backward that starts by zeroing the gradients of the filters and biases
ConvLayer_backward_resets(L, V, out) ==
    ConvLayer_backward_loop(
        [layer |-> ZeroedParamGrads(L), in |-> [V EXCEPT !.dw = zeros(Len(V.w))]],
        out, 0)

ConvLayer_backward_noBias(L, V, out) ==
    LET r == ConvLayer_backward_loop(
                 [layer |-> L, in |-> [V EXCEPT !.dw = zeros(Len(V.w))]], out, 0)
    IN  [r EXCEPT !.layer.biases.dw = L.biases.dw]

\* backward: the layer (filter and bias gradients) and the input Vol after it
ConvLayer_backward(L, V, out) ==
    ConvLayer_backward_loop(
        [layer |-> L, in |-> [V EXCEPT !.dw = zeros(Len(V.w))]], out, 0)

ConvLayer_toJSON(L) ==
    [layer_type |-> L.layer_type,
     out_sx |-> L.out_sx, out_sy |-> L.out_sy, out_depth |-> L.out_depth,
     sx |-> L.sx, sy |-> L.sy, stride |-> L.stride, in_depth |-> L.in_depth,
     l1_decay_mul |-> L.l1_decay_mul, l2_decay_mul |-> L.l2_decay_mul,
     pad |-> L.pad,
     filters |-> [i \in 1..Len(L.filters) |-> Vol_toJSON(L.filters[i])],
     biases |-> Vol_toJSON(L.biases)]

\* fromJSON leaving the biases at zero instead of restoring them
ConvLayer_fromJSON_zeroBiases(json) ==
    [out_depth |-> json.out_depth, out_sx |-> json.out_sx, out_sy |-> json.out_sy,
     layer_type |-> json.layer_type,
     sx |-> json.sx, sy |-> json.sy, stride |-> json.stride,
     in_depth |-> json.in_depth,
     filters |-> [i \in 1..Len(json.filters) |-> Vol_fromJSON(json.filters[i])],
     l1_decay_mul |-> IF Has(json, "l1_decay_mul") THEN json.l1_decay_mul ELSE 1,
     l2_decay_mul |-> IF Has(json, "l2_decay_mul") THEN json.l2_decay_mul ELSE 1,
     pad |-> IF Has(json, "pad") THEN json.pad ELSE 0,
     biases |-> Vol_cloneAndZero(Vol_fromJSON(json.biases))]

ConvLayer_fromJSON(json) ==
    [out_depth |-> json.out_depth, out_sx |-> json.out_sx, out_sy |-> json.out_sy,
     layer_type |-> json.layer_type,
     sx |-> json.sx, sy |-> json.sy, stride |-> json.stride,
     in_depth |-> json.in_depth,
     filters |-> [i \in 1..Len(json.filters) |-> Vol_fromJSON(json.filters[i])],
     l1_decay_mul |-> IF Has(json, "l1_decay_mul") THEN json.l1_decay_mul ELSE 1,
     l2_decay_mul |-> IF Has(json, "l2_decay_mul") THEN json.l2_decay_mul ELSE 1,
     pad |-> IF Has(json, "pad") THEN json.pad ELSE 0,
     biases |-> Vol_fromJSON(json.biases)]

FullyConnLayer_new(o, seed) ==
    LET out_depth  == IF Has(o, "num_neurons") THEN o.num_neurons ELSE o.filters
        num_inputs == o.in_sx * o.in_sy * o.in_depth
        bias       == IF Has(o, "bias_pref") THEN o.bias_pref ELSE 0
    IN  [layer_type |-> "fc",
         l1_decay_mul |-> IF Has(o, "l1_decay_mul") THEN o.l1_decay_mul ELSE 0,
         l2_decay_mul |-> IF Has(o, "l2_decay_mul") THEN o.l2_decay_mul ELSE 1,
         out_depth |-> out_depth, num_inputs |-> num_inputs,
         out_sx |-> 1, out_sy |-> 1,
         filters |-> [i \in 1..out_depth |-> RandomVol(1, 1, num_inputs, seed, i - 1)],
         biases |-> Vol(1, 1, out_depth, bias)]

FullyConnLayer_forward(L, V) ==
    [Vol(1, 1, L.out_depth, 0) EXCEPT !.w =
        [i \in 1..L.out_depth |->
            SumOver(0, L.num_inputs - 1,
                    [d \in 0..(L.num_inputs - 1) |->
                        V.w[d + 1] * L.filters[i].w[d + 1]])
              + L.biases.w[i]]]

\* the loop over i of backward from iteration i on: st = [layer, in]
RECURSIVE FullyConnLayer_backward_loop(_, _, _)
FullyConnLayer_backward_loop(st, out, i) ==
    LET L == st.layer
    IN  IF i >= L.out_depth THEN st
        ELSE LET tfi == L.filters[i + 1]
                 chain_grad == out.dw[i + 1]
             IN  FullyConnLayer_backward_loop(
                     [layer |-> [L EXCEPT
                         !.filters[i + 1].dw =
                             [d \in 1..Len(tfi.dw) |->
                                 IF d <= L.num_inputs
                                 THEN tfi.dw[d] + st.in.w[d] * chain_grad
                                 ELSE tfi.dw[d]],
                         !.biases.dw[i + 1] = L.biases.dw[i + 1] + chain_grad],
                      in |-> [st.in EXCEPT !.dw =
                             [d \in 1..Len(st.in.dw) |->
                                 IF d <= L.num_inputs
                                 THEN st.in.dw[d] + tfi.w[d] * chain_grad
                                 ELSE st.in.dw[d]]]],
                     out, i + 1)

\* backward that leaves the gradient of its input as it finds it
FullyConnLayer_backward_keepsGrad(L, V, out) ==
    FullyConnLayer_backward_loop([layer |-> L, in |-> V], out, 0)

FullyConnLayer_backward(L, V, out) ==
    FullyConnLayer_backward_loop(
        [layer |-> L, in |-> [V EXCEPT !.dw = zeros(Len(V.w))]], out, 0)

FullyConnLayer_toJSON(L) ==
    [layer_type |-> L.layer_type,
     out_sx |-> L.out_sx, out_sy |-> L.out_sy, out_depth |-> L.out_depth,
     num_inputs |-> L.num_inputs,
     l1_decay_mul |-> L.l1_decay_mul, l2_decay_mul |-> L.l2_decay_mul,
     filters |-> [i \in 1..Len(L.filters) |-> Vol_toJSON(L.filters[i])],
     biases |-> Vol_toJSON(L.biases)]

FullyConnLayer_fromJSON(json) ==
    [out_depth |-> json.out_depth, out_sx |-> json.out_sx, out_sy |-> json.out_sy,
     layer_type |-> json.layer_type, num_inputs |-> json.num_inputs,
     l1_decay_mul |-> IF Has(json, "l1_decay_mul") THEN json.l1_decay_mul ELSE 1,
     l2_decay_mul |-> IF Has(json, "l2_decay_mul") THEN json.l2_decay_mul ELSE 1,
     filters |-> [i \in 1..Len(json.filters) |-> Vol_fromJSON(json.filters[i])],
     biases |-> Vol_fromJSON(json.biases)]

(***************************************************************************)
(* PoolLayer.                                                              *)
(***************************************************************************)
\* "let a = -99999": the value max pooling starts from
PoolStart == -99999

PoolLayer_new(o) ==
    LET sx     == o.sx
        sy     == IF Has(o, "sy") THEN o.sy ELSE sx
        stride == IF Has(o, "stride") THEN o.stride ELSE 2
        pad    == IF Has(o, "pad") THEN o.pad ELSE 0
        out_sx == OutSize(o.in_sx, pad, sx, stride)
        out_sy == OutSize(o.in_sy, pad, sy, stride)
    IN  [layer_type |-> "pool",
         sx |-> sx, in_depth |-> o.in_depth, in_sx |-> o.in_sx, in_sy |-> o.in_sy,
         sy |-> sy, stride |-> stride, pad |-> pad,
         out_depth |-> o.in_depth, out_sx |-> out_sx, out_sy |-> out_sy,
         switchx |-> zeros(out_sx * out_sy * o.in_depth),
         switchy |-> zeros(out_sx * out_sy * o.in_depth)]

\* the loops over fx, fy of one window from iteration j on: m = [a, winx, winy]
RECURSIVE PoolLayer_window(_, _, _, _, _, _, _, _)
PoolLayer_window(m, sx, sy, V, x, y, d, j) ==
    IF j >= sx * sy THEN m
    ELSE LET fx == j \div sy
             fy == j % sy
             oy == y + fy
             ox == x + fx
             v  == Vol_get(V, ox, oy, d)
             nxt == IF oy >= 0 /\ oy < V.sy /\ ox >= 0 /\ ox < V.sx
                    THEN IF v > m.a THEN [a |-> v, winx |-> ox, winy |-> oy] ELSE m
                    ELSE m
         IN  PoolLayer_window(nxt, sx, sy, V, x, y, d, j + 1)

\* the loops over d, ax, ay from iteration n on (n is the switch counter)
RECURSIVE PoolLayer_forward_loop(_, _, _)
PoolLayer_forward_loop(st, V, n) ==
    LET L == st.layer
    IN  IF n >= L.out_depth * L.out_sx * L.out_sy THEN st
        ELSE LET d  == n \div (L.out_sx * L.out_sy)
                 ax == (n \div L.out_sy) % L.out_sx
                 ay == n % L.out_sy
                 x  == WindowStart(L, ax)
                 y  == WindowStart(L, ay)
                 m  == PoolLayer_window([a |-> PoolStart, winx |-> -1, winy |-> -1],
                                        L.sx, L.sy, V, x, y, d, 0)
             IN  PoolLayer_forward_loop(
                     [layer |-> [L EXCEPT !.switchx = StoreAt(L.switchx, n, m.winx),
                                          !.switchy = StoreAt(L.switchy, n, m.winy)],
                      out |-> Vol_set(st.out, ax, ay, d, m.a)],
                     V, n + 1)

\* forward: the layer (its switches) and the Vol left in out_act
PoolLayer_forward(L, V) ==
    PoolLayer_forward_loop(
        [layer |-> L, out |-> Vol(L.out_sx, L.out_sy, L.out_depth, 0)], V, 0)

RECURSIVE PoolLayer_backward_loop(_, _, _, _)
PoolLayer_backward_loop(L, V, out, n) ==
    IF n >= L.out_depth * L.out_sx * L.out_sy THEN V
    ELSE LET d  == n \div (L.out_sx * L.out_sy)
             ax == (n \div L.out_sy) % L.out_sx
             ay == n % L.out_sy
             chain_grad == Vol_get_grad(out, ax, ay, d)
         IN  PoolLayer_backward_loop(L,
                 Vol_add_grad(V, L.switchx[n + 1], L.switchy[n + 1], d, chain_grad),
                 out, n + 1)

\* the loop of a backward that stores each upstream gradient at the winner
\* instead of adding it
RECURSIVE PoolLayer_backward_loop_stored(_, _, _, _)
PoolLayer_backward_loop_stored(L, V, out, n) ==
    IF n >= L.out_depth * L.out_sx * L.out_sy THEN V
    ELSE LET d  == n \div (L.out_sx * L.out_sy)
             ax == (n \div L.out_sy) % L.out_sx
             ay == n % L.out_sy
             chain_grad == Vol_get_grad(out, ax, ay, d)
         IN  PoolLayer_backward_loop_stored(L,
                 Vol_set_grad(V, L.switchx[n + 1], L.switchy[n + 1], d, chain_grad),
                 out, n + 1)

\* backward overwriting the gradient where windows share a winner
PoolLayer_backward_stored(L, V, out) ==
    PoolLayer_backward_loop_stored(L, [V EXCEPT !.dw = zeros(Len(V.w))], out, 0)

\* backward: the input Vol after it
PoolLayer_backward(L, V, out) ==
    PoolLayer_backward_loop(L, [V EXCEPT !.dw = zeros(Len(V.w))], out, 0)

PoolLayer_toJSON(L) ==
    [layer_type |-> L.layer_type,
     out_sx |-> L.out_sx, out_sy |-> L.out_sy, out_depth |-> L.out_depth,
     in_depth |-> L.in_depth, sx |-> L.sx, sy |-> L.sy,
     stride |-> L.stride, pad |-> L.pad]

PoolLayer_fromJSON(json) ==
    [out_depth |-> json.out_depth, out_sx |-> json.out_sx, out_sy |-> json.out_sy,
     layer_type |-> json.layer_type,
     sx |-> json.sx, sy |-> json.sy, stride |-> json.stride,
     in_depth |-> json.in_depth,
     pad |-> IF Has(json, "pad") THEN json.pad ELSE 0,
     switchx |-> zeros(json.out_sx * json.out_sy * json.out_depth),
     switchy |-> zeros(json.out_sx * json.out_sy * json.out_depth)]

(***************************************************************************)
(* MaxoutLayer.                                                            *)
(***************************************************************************)
MaxoutLayer_new(o) ==
    LET group_size == IF Has(o, "group_size") THEN o.group_size ELSE 2
        out_depth  == o.in_depth \div group_size
    IN  [layer_type |-> "maxout",
         out_sx |-> o.in_sx, out_sy |-> o.in_sy, out_depth |-> out_depth,
         group_size |-> group_size,
         switches |-> zeros(o.in_sx * o.in_sy * out_depth)]

\* the loop over j of one group from j on: m = [a, ai]; w[k] is input lane k
RECURSIVE MaxoutLayer_group(_, _, _, _, _)
MaxoutLayer_group(m, group_size, w, ix, j) ==
    IF j >= group_size THEN m
    ELSE LET a2 == w[ix + j]
         IN  MaxoutLayer_group(IF a2 > m.a THEN [a |-> a2, ai |-> j] ELSE m,
                               group_size, w, ix, j + 1)

\* the flat branch (out_sx = out_sy = 1): the loop over i from i on
RECURSIVE MaxoutLayer_forward_flat(_, _, _)
MaxoutLayer_forward_flat(st, V, i) ==
    LET L == st.layer
    IN  IF i >= L.out_depth THEN st
        ELSE LET ix == i * L.group_size
                 m  == MaxoutLayer_group([a |-> V.w[ix + 1], ai |-> 0],
                           L.group_size, [k \in 0..(Len(V.w) - 1) |-> V.w[k + 1]], ix, 1)
             IN  MaxoutLayer_forward_flat(
                     [layer |-> [L EXCEPT !.switches =
                                     StoreAt(L.switches, i, ix + m.ai)],
                      out |-> [st.out EXCEPT !.w = StoreAt(st.out.w, i, m.a)]],
                     V, i + 1)

\* a coordinate branch that records the winner's place within its group
RECURSIVE MaxoutLayer_forward_xy_inGroup(_, _, _)
MaxoutLayer_forward_xy_inGroup(st, V, n) ==
    LET L == st.layer
        N == L.out_depth
    IN  IF n >= V.sx * V.sy * N THEN st
        ELSE LET x  == n \div (V.sy * N)
                 y  == (n \div N) % V.sy
                 i  == n % N
                 ix == i * L.group_size
                 m  == MaxoutLayer_group([a |-> Vol_get(V, x, y, ix), ai |-> 0],
                           L.group_size,
                           [k \in 0..(V.depth - 1) |-> Vol_get(V, x, y, k)], ix, 1)
             IN  MaxoutLayer_forward_xy_inGroup(
                     [layer |-> [L EXCEPT !.switches =
                                     StoreAt(L.switches, n, m.ai)],
                      out |-> Vol_set(st.out, x, y, i, m.a)],
                     V, n + 1)

\* the coordinate branch: the loops over x, y, i from iteration n on
RECURSIVE MaxoutLayer_forward_xy(_, _, _)
MaxoutLayer_forward_xy(st, V, n) ==
    LET L == st.layer
        N == L.out_depth
    IN  IF n >= V.sx * V.sy * N THEN st
        ELSE LET x  == n \div (V.sy * N)
                 y  == (n \div N) % V.sy
                 i  == n % N
                 ix == i * L.group_size
                 m  == MaxoutLayer_group([a |-> Vol_get(V, x, y, ix), ai |-> 0],
                           L.group_size,
                           [k \in 0..(V.depth - 1) |-> Vol_get(V, x, y, k)], ix, 1)
             IN  MaxoutLayer_forward_xy(
                     [layer |-> [L EXCEPT !.switches =
                                     StoreAt(L.switches, n, ix + m.ai)],
                      out |-> Vol_set(st.out, x, y, i, m.a)],
                     V, n + 1)

\* forward: the layer (its switches) and the Vol left in out_act
MaxoutLayer_forward(L, V) ==
    LET st == [layer |-> L, out |-> Vol(L.out_sx, L.out_sy, L.out_depth, 0)]
    IN  IF L.out_sx = 1 /\ L.out_sy = 1
        THEN MaxoutLayer_forward_flat(st, V, 0)
        ELSE MaxoutLayer_forward_xy(st, V, 0)

\* this.switches[n]: undefined outside the array
Switch(L, n) ==
    IF n + 1 \in DOMAIN L.switches
    THEN [defined |-> TRUE, v |-> L.switches[n + 1]]
    ELSE [defined |-> FALSE]

RECURSIVE MaxoutLayer_backward_flat(_, _, _, _)
MaxoutLayer_backward_flat(L, V, V2, i) ==
    IF i >= L.out_depth THEN V
    ELSE LET chain_grad == V2.dw[i + 1]
             sw == Switch(L, i)
         IN  MaxoutLayer_backward_flat(L,
                 IF sw.defined
                 THEN [V EXCEPT !.dw = StoreAt(V.dw, sw.v, chain_grad)]
                 ELSE V,
                 V2, i + 1)

RECURSIVE MaxoutLayer_backward_xy(_, _, _, _)
MaxoutLayer_backward_xy(L, V, V2, n) ==
    LET N == L.out_depth
    IN  IF n >= V2.sx * V2.sy * N THEN V
        ELSE LET x  == n \div (V2.sy * N)
                 y  == (n \div N) % V2.sy
                 i  == n % N
                 chain_grad == Vol_get_grad(V2, x, y, i)
                 sw == Switch(L, n)
             IN  MaxoutLayer_backward_xy(L,
                     IF sw.defined
                     THEN Vol_set_grad(V, x, y, sw.v, chain_grad)
                     ELSE V,
                     V2, n + 1)

\* backward: the input Vol after it
MaxoutLayer_backward(L, V, V2) ==
    LET V0 == [V EXCEPT !.dw = zeros(Len(V.w))]
    IN  IF L.out_sx = 1 /\ L.out_sy = 1
        THEN MaxoutLayer_backward_flat(L, V0, V2, 0)
        ELSE MaxoutLayer_backward_xy(L, V0, V2, 0)

MaxoutLayer_toJSON(L) ==
    [layer_type |-> L.layer_type,
     out_sx |-> L.out_sx, out_sy |-> L.out_sy, out_depth |-> L.out_depth,
     group_size |-> L.group_size]

MaxoutLayer_fromJSON(json) ==
    [out_depth |-> json.out_depth, out_sx |-> json.out_sx, out_sy |-> json.out_sy,
     layer_type |-> json.layer_type,
     group_size |-> json.group_size,
     switches |-> zeros(json.group_size)]

(***************************************************************************)
(* DropoutLayer.  drop_prob is held in halves: 0 is 0.0, 1 is 0.5 (the     *)
(* default), 2 is 1.0; w * drop_prob is then (w * halves) / 2.             *)
(***************************************************************************)
\* what Math.random() < drop_prob can give: never below 0.0, always at 1.0
RandomBelow(drop_prob) ==
    IF drop_prob <= 0 THEN {FALSE} ELSE IF drop_prob >= 2 THEN {TRUE} ELSE BOOLEAN

\* the outcomes of the n draws of one training-mode forward
Draws(drop_prob, n) == [1..n -> RandomBelow(drop_prob)]

\* w * drop_prob is exactly an integer
ScalesExactly(w, drop_prob) == (w * drop_prob) % 2 = 0

DropoutLayer_new(o) ==
    [layer_type |-> "dropout",
     out_sx |-> o.in_sx, out_sy |-> o.in_sy, out_depth |-> o.in_depth,
     drop_prob |-> IF Has(o, "drop_prob") THEN o.drop_prob ELSE 1,
     dropped |-> [k \in 1..(o.in_sx * o.in_sy * o.in_depth) |-> FALSE]]

\* forward whose inference branch zeroes the units of the stored mask
DropoutLayer_forward_masked(L, V, is_training, r) ==
    LET V2 == Vol_clone(V)
        N  == Len(V.w)
    IN  IF is_training
        THEN [layer |-> [L EXCEPT !.dropped =
                            [k \in DOMAIN L.dropped |->
                                IF k <= N THEN r[k] ELSE L.dropped[k]]],
              in |-> V,
              out |-> [V2 EXCEPT !.w =
                            [k \in 1..N |-> IF r[k] THEN 0 ELSE V2.w[k]]]]
        ELSE [layer |-> L,
              in |-> V,
              out |-> [V2 EXCEPT !.w =
                            [k \in 1..N |->
                                IF k \in DOMAIN L.dropped /\ L.dropped[k] THEN 0
                                ELSE (V2.w[k] * L.drop_prob) \div 2]]]

\* forward: the layer (its mask), the input Vol after it and the Vol left in
\* out_act; r[i] is the outcome of Math.random() < drop_prob for unit i
DropoutLayer_forward(L, V, is_training, r) ==
    LET V2 == Vol_clone(V)
        N  == Len(V.w)
    IN  IF is_training
        THEN [layer |-> [L EXCEPT !.dropped =
                            [k \in DOMAIN L.dropped |->
                                IF k <= N THEN r[k] ELSE L.dropped[k]]],
              in |-> V,
              out |-> [V2 EXCEPT !.w =
                            [k \in 1..N |-> IF r[k] THEN 0 ELSE V2.w[k]]]]
        ELSE [layer |-> L,
              in |-> V,
              out |-> [V2 EXCEPT !.w =
                            [k \in 1..N |-> (V2.w[k] * L.drop_prob) \div 2]]]

\* this.dropped[i]: undefined (so not dropped) outside the array
Dropped(L, i) == IF i + 1 \in DOMAIN L.dropped THEN L.dropped[i + 1] ELSE FALSE

\* backward that copies the upstream gradient at every unit
DropoutLayer_backward_unmasked(L, V, chain_grad) ==
    LET n == Len(V.w)
    IN  [V EXCEPT !.dw = [k \in 1..n |-> chain_grad.dw[k]]]

\* backward: the input Vol after it
DropoutLayer_backward(L, V, chain_grad) ==
    LET n == Len(V.w)
    IN  [V EXCEPT !.dw =
            [k \in 1..n |-> IF ~Dropped(L, k - 1) THEN chain_grad.dw[k] ELSE 0]]

DropoutLayer_toJSON(L) ==
    [layer_type |-> L.layer_type,
     out_sx |-> L.out_sx, out_sy |-> L.out_sy, out_depth |-> L.out_depth,
     drop_prob |-> L.drop_prob]

DropoutLayer_fromJSON(json) ==
    [out_depth |-> json.out_depth, out_sx |-> json.out_sx, out_sy |-> json.out_sy,
     layer_type |-> json.layer_type,
     drop_prob |-> json.drop_prob,
     dropped |-> [k \in 1..(json.out_sx * json.out_sy * json.out_depth) |-> FALSE]]

(***************************************************************************)
(* InputLayer.                                                             *)
(***************************************************************************)
\* getopt(opt, names, dflt): the first of the named fields opt has
getopt(o, names, dflt) ==
    LET found == {k \in 1..Len(names) : Has(o, names[k])}
    IN  IF found = {} THEN dflt
        ELSE o[names[CHOOSE k \in found : \A k2 \in found : k <= k2]]

InputLayer_new(o) ==
    [layer_type |-> "input",
     out_depth |-> getopt(o, <<"out_depth", "depth">>, 0),
     out_sx |-> getopt(o, <<"out_sx", "sx", "width">>, 1),
     out_sy |-> getopt(o, <<"out_sy", "sy", "height">>, 1)]

InputLayer_toJSON(L) ==
    [layer_type |-> L.layer_type,
     out_sx |-> L.out_sx, out_sy |-> L.out_sy, out_depth |-> L.out_depth]

InputLayer_fromJSON(json) ==
    [out_depth |-> json.out_depth, out_sx |-> json.out_sx, out_sy |-> json.out_sy,
     layer_type |-> json.layer_type]

(***************************************************************************)
(* The loss layers.  A softmax probability exp(s[i]) / sum_j exp(s[j]) of  *)
(* the shifted inputs s = as - amax is the term [e |-> s[i], sum |-> the   *)
(* bag of s]; with one class it is exactly 1.                              *)
(***************************************************************************)
BagOf(s) ==
    [v \in {s[k] : k \in DOMAIN s} |-> Cardinality({k \in DOMAIN s : s[k] = v})]

Prob(s, i) == IF Len(s) = 1 THEN 1 ELSE [e |-> s[i], sum |-> BagOf(s)]

\* -(indicator - p)
ProbMinus(es, i, indicator) ==
    IF Len(es) = 1 THEN 0 - (indicator - es[i + 1])
    ELSE [p |-> es[i + 1], minus |-> indicator]

\* -Math.log(p): p is undefined when the index is outside the array
NegLog(es, y) ==
    IF ~(y + 1 \in DOMAIN es) THEN NaN
    ELSE IF Len(es) = 1 THEN Val(0) ELSE [neglog |-> es[y + 1]]

\* the constructor shared by the three loss layers
LossLayer_new(layerType, o) ==
    LET num_inputs == o.in_sx * o.in_sy * o.in_depth
    IN  [layer_type |-> layerType, num_inputs |-> num_inputs,
         out_depth |-> num_inputs, out_sx |-> 1, out_sy |-> 1]

LossLayer_toJSON(L) ==
    [layer_type |-> L.layer_type,
     out_sx |-> L.out_sx, out_sy |-> L.out_sy, out_depth |-> L.out_depth,
     num_inputs |-> L.num_inputs]

LossLayer_fromJSON(json) ==
    [out_depth |-> json.out_depth, out_sx |-> json.out_sx, out_sy |-> json.out_sy,
     layer_type |-> json.layer_type, num_inputs |-> json.num_inputs]

RECURSIVE SoftmaxLayer_amax(_, _, _, _)
SoftmaxLayer_amax(as, amax, i, n) ==
    IF i >= n THEN amax
    ELSE SoftmaxLayer_amax(as, IF as[i + 1] > amax THEN as[i + 1] ELSE amax, i + 1, n)

\* forward that exponentiates the scores as they are
SoftmaxLayer_forward_unshifted(L, V) ==
    LET s    == [i \in 1..L.out_depth |-> V.w[i]]
        es   == [i \in 1..L.out_depth |-> Prob(s, i)]
    IN  [layer |-> [k \in DOMAIN L \cup {"es"} |-> IF k = "es" THEN es ELSE L[k]],
         out |-> [Vol(1, 1, L.out_depth, 0) EXCEPT !.w = es]]

\* forward: the layer (its es) and the Vol left in out_act
SoftmaxLayer_forward(L, V) ==
    LET amax == SoftmaxLayer_amax(V.w, V.w[1], 1, L.out_depth)
        s    == [i \in 1..L.out_depth |-> V.w[i] - amax]
        es   == [i \in 1..L.out_depth |-> Prob(s, i)]
    IN  [layer |-> [k \in DOMAIN L \cup {"es"} |-> IF k = "es" THEN es ELSE L[k]],
         out |-> [Vol(1, 1, L.out_depth, 0) EXCEPT !.w = es]]

RECURSIVE SoftmaxLayer_backward_loop(_, _, _, _)
SoftmaxLayer_backward_loop(L, dw, y, i) ==
    IF i >= L.out_depth THEN dw
    ELSE LET indicator == IF i = y THEN 1 ELSE 0
             mul == ProbMinus(L.es, i, indicator)
         IN  SoftmaxLayer_backward_loop(L, StoreAt(dw, i, mul), y, i + 1)

\* backward(y), y a number: the input Vol after it and the value returned
SoftmaxLayer_backward(L, x, y) ==
    [in  |-> [x EXCEPT !.dw = SoftmaxLayer_backward_loop(L, zeros(Len(x.w)), y, 0)],
     ret |-> NegLog(L.es, y)]

\* a target: a number (v), an Array or a Float64Array (a), or a {dim, val}
\* object
IsNumber(y) == y.kind = "number"

IsObject(y) == y.kind \in {"array", "f64array", "object"}

\* backward that regresses every dimension on a scalar target
RegressionLayer_backward_allDims(L, x, y) ==
    LET x0 == [x EXCEPT !.dw = zeros(Len(x.w))]
        t(k) == IF y.kind = "number" THEN y.v ELSE y.a[k]
    IN  IF y.kind \in {"array", "f64array", "number"}
        THEN [in  |-> [x0 EXCEPT !.dw = [k \in DOMAIN x0.dw |->
                          IF k <= L.out_depth THEN x.w[k] - t(k) ELSE 0]],
              ret |-> Half(SumOver(1, L.out_depth,
                          [k \in 1..L.out_depth |->
                              (x.w[k] - t(k)) * (x.w[k] - t(k))]))]
        ELSE [in  |-> [x0 EXCEPT !.dw = StoreAt(x0.dw, y.dim, x.w[y.dim + 1] - y.val)],
              ret |-> Half((x.w[y.dim + 1] - y.val) * (x.w[y.dim + 1] - y.val))]

\* backward(y): the input Vol after it and the value returned, the sum of the
\* 0.5 * dy * dy
RegressionLayer_backward(L, x, y) ==
    LET x0 == [x EXCEPT !.dw = zeros(Len(x.w))]
    IN  IF y.kind \in {"array", "f64array"}
        THEN [in  |-> [x0 EXCEPT !.dw = [k \in DOMAIN x0.dw |->
                          IF k <= L.out_depth THEN x.w[k] - y.a[k] ELSE 0]],
              ret |-> Half(SumOver(1, L.out_depth,
                          [k \in 1..L.out_depth |->
                              (x.w[k] - y.a[k]) * (x.w[k] - y.a[k])]))]
        ELSE IF y.kind = "number"
        THEN [in  |-> [x0 EXCEPT !.dw = StoreAt(x0.dw, 0, x.w[1] - y.v)],
              ret |-> Half((x.w[1] - y.v) * (x.w[1] - y.v))]
        ELSE [in  |-> [x0 EXCEPT !.dw = StoreAt(x0.dw, y.dim, x.w[y.dim + 1] - y.val)],
              ret |-> Half((x.w[y.dim + 1] - y.val) * (x.w[y.dim + 1] - y.val))]

\* the loop over i of SVMLayer.backward from i on: st = [dw, loss]
RECURSIVE SVMLayer_backward_loop(_, _, _, _, _)
SVMLayer_backward_loop(st, L, x, y, i) ==
    IF i >= L.out_depth THEN st
    ELSE IF y = i THEN SVMLayer_backward_loop(st, L, x, y, i + 1)
    ELSE LET ydiff == (0 - x.w[y + 1]) + x.w[i + 1] + 1
         IN  SVMLayer_backward_loop(
                 IF ydiff > 0
                 THEN [dw |-> [st.dw EXCEPT ![i + 1] = @ + 1, ![y + 1] = @ - 1],
                       loss |-> st.loss + ydiff]
                 ELSE st,
                 L, x, y, i + 1)

\* backward that leaves the gradient of the true class at 0
SVMLayer_backward_noTruth(L, x, y) ==
    LET x0 == [x EXCEPT !.dw = zeros(Len(x.w))]
        r  == IF y + 1 \in DOMAIN x.w
              THEN SVMLayer_backward_loop([dw |-> x0.dw, loss |-> 0], L, x, y, 0)
              ELSE [dw |-> x0.dw, loss |-> 0]
    IN  [in |-> [x0 EXCEPT !.dw = StoreAt(r.dw, y, 0)], ret |-> Val(r.loss)]

\* backward(y), y a number: the input Vol after it and the value returned.
\* With y outside the scores, yscore is undefined and every ydiff is NaN:
\* no class violates.
SVMLayer_backward(L, x, y) ==
    LET x0 == [x EXCEPT !.dw = zeros(Len(x.w))]
        r  == IF y + 1 \in DOMAIN x.w
              THEN SVMLayer_backward_loop([dw |-> x0.dw, loss |-> 0], L, x, y, 0)
              ELSE [dw |-> x0.dw, loss |-> 0]
    IN  [in |-> [x0 EXCEPT !.dw = r.dw], ret |-> Val(r.loss)]

(***************************************************************************)
(* Dispatch on the layer type.                                             *)
(***************************************************************************)
\* new XLayer(o); seed picks the random initial weights
Layer_new(o, seed) ==
    CASE o.type = "fc"         -> FullyConnLayer_new(o, seed)
      [] o.type = "dropout"    -> DropoutLayer_new(o)
      [] o.type = "input"      -> InputLayer_new(o)
      [] o.type = "softmax"    -> LossLayer_new("softmax", o)
      [] o.type = "regression" -> LossLayer_new("regression", o)
      [] o.type = "conv"       -> ConvLayer_new(o, seed)
      [] o.type = "pool"       -> PoolLayer_new(o)
      [] o.type = "relu"       -> ReluLayer_new(o)
      [] o.type = "sigmoid"    -> OutputLayer_new("sigmoid", o)
      [] o.type = "tanh"       -> OutputLayer_new("tanh", o)
      [] o.type = "maxout"     -> MaxoutLayer_new(o)
      [] o.type = "svm"        -> LossLayer_new("svm", o)

\* layers whose forward returns the Vol it was given (the same object)
PassThrough == {"input", "regression", "svm"}

\* layer.forward(V, is_training): the layer and the Vol left in out_act
Layer_forward(L, V, is_training, r, prev) ==
    CASE L.layer_type = "relu"    -> [layer |-> L, out |-> ReluLayer_forward(L, V, prev)]
      [] L.layer_type = "conv"    -> [layer |-> L, out |-> ConvLayer_forward(L, V)]
      [] L.layer_type = "fc"      -> [layer |-> L, out |-> FullyConnLayer_forward(L, V)]
      [] L.layer_type = "pool"    -> PoolLayer_forward(L, V)
      [] L.layer_type = "maxout"  -> MaxoutLayer_forward(L, V)
      [] L.layer_type = "dropout" -> DropoutLayer_forward(L, V, is_training, r)
      [] L.layer_type = "softmax" -> SoftmaxLayer_forward(L, V)
      [] L.layer_type \in PassThrough -> [layer |-> L, out |-> V]

\* layer.backward(y): the layer, the input Vol after it and the value returned
Layer_backward(L, V, out, y) ==
    CASE L.layer_type = "relu" ->
            [layer |-> L, in |-> ReluLayer_backward(L, V, out), ret |-> Undefined]
      [] L.layer_type = "conv" ->
            [k \in {"layer", "in", "ret"} |->
                IF k = "ret" THEN Val(0) ELSE ConvLayer_backward(L, V, out)[k]]
      [] L.layer_type = "fc" ->
            [k \in {"layer", "in", "ret"} |->
                IF k = "ret" THEN Undefined ELSE FullyConnLayer_backward(L, V, out)[k]]
      [] L.layer_type = "pool" ->
            [layer |-> L, in |-> PoolLayer_backward(L, V, out), ret |-> Undefined]
      [] L.layer_type = "maxout" ->
            [layer |-> L, in |-> MaxoutLayer_backward(L, V, out), ret |-> Undefined]
      [] L.layer_type = "dropout" ->
            [layer |-> L, in |-> DropoutLayer_backward(L, V, out), ret |-> Undefined]
      [] L.layer_type = "input" ->
            [layer |-> L, in |-> V, ret |-> Undefined]
      [] L.layer_type = "softmax" ->
            [k \in {"layer", "in", "ret"} |->
                IF k = "layer" THEN L ELSE SoftmaxLayer_backward(L, V, y.v)[k]]
      [] L.layer_type = "regression" ->
            [k \in {"layer", "in", "ret"} |->
                IF k = "layer" THEN L ELSE RegressionLayer_backward(L, V, y)[k]]
      [] L.layer_type = "svm" ->
            [k \in {"layer", "in", "ret"} |->
                IF k = "layer" THEN L ELSE SVMLayer_backward(L, V, y.v)[k]]

Layer_toJSON(L) ==
    CASE L.layer_type \in {"input", "relu", "sigmoid", "tanh"} -> ReluLayer_toJSON(L)
      [] L.layer_type = "dropout" -> DropoutLayer_toJSON(L)
      [] L.layer_type = "conv"    -> ConvLayer_toJSON(L)
      [] L.layer_type = "pool"    -> PoolLayer_toJSON(L)
      [] L.layer_type = "fc"      -> FullyConnLayer_toJSON(L)
      [] L.layer_type = "maxout"  -> MaxoutLayer_toJSON(L)
      [] L.layer_type \in {"softmax", "regression", "svm"} -> LossLayer_toJSON(L)

\* the chain of "if (layer.layer_type === ...) L = new XLayer().fromJSON(layer)"
Layer_fromJSON(json) ==
    CASE json.layer_type \in {"input", "relu", "sigmoid", "tanh"} ->
            ReluLayer_fromJSON(json)
      [] json.layer_type = "dropout" -> DropoutLayer_fromJSON(json)
      [] json.layer_type = "conv"    -> ConvLayer_fromJSON(json)
      [] json.layer_type = "pool"    -> PoolLayer_fromJSON(json)
      [] json.layer_type = "fc"      -> FullyConnLayer_fromJSON(json)
      [] json.layer_type = "maxout"  -> MaxoutLayer_fromJSON(json)
      [] json.layer_type \in {"softmax", "regression", "svm"} ->
            LossLayer_fromJSON(json)

(***************************************************************************)
(* One layer driven by a caller: forward, the next layer's backward        *)
(* writing out_act.dw, backward, and a toJSON / fromJSON round trip.       *)
(***************************************************************************)
LossTypes == {"softmax", "regression", "svm"}

NoTarget == [kind |-> "none"]

Number(v) == [kind |-> "number", v |-> v]

\* vectors of length n whose entries lie at and below the value a pooling
\* window starts from
LowVectors(n) ==
    {[k \in 1..n |-> PoolStart - 1],
     [k \in 1..n |-> IF k = 1 THEN PoolStart ELSE PoolStart - 1]}

\* scores of large magnitude
WideVectors(n) == {[k \in 1..n |-> MaxScore * v[k]] : v \in Vectors(n)}

\* inputs that halve exactly
EvenVectors(n) == {[k \in 1..n |-> 2 * v[k]] : v \in Vectors(n)}

\* the Vols the caller hands to forward
Inputs(o) ==
    LET n == o.in_sx * o.in_sy * o.in_depth
    IN  {VolOf(o.in_sx, o.in_sy, o.in_depth, w) :
            w \in IF o.type \in {"conv", "fc"}
                  THEN {Pattern(s, n) : s \in 1..MaxSeed}
                  ELSE IF o.type = "pool"
                  THEN Vectors(n) \cup LowVectors(n)
                  ELSE IF o.type = "dropout"
                  THEN Vectors(n) \cup EvenVectors(n)
                  ELSE IF o.type = "softmax"
                  THEN Vectors(n) \cup WideVectors(n)
                  ELSE Vectors(n)}

\* the targets the caller hands to backward
Targets(L) ==
    IF L.layer_type \in {"softmax", "svm"}
    THEN {Number(c) : c \in -1..L.out_depth}
    ELSE IF L.layer_type = "regression"
    THEN {Number(c) : c \in Vals}
           \cup {[kind |-> k, a |-> Pattern(s, L.out_depth)] :
                    k \in {"array", "f64array"}, s \in 1..MaxSeed}
           \cup {[kind |-> "object", dim |-> d, val |-> c] :
                    d \in 0..(L.out_depth - 1), c \in Vals}
    ELSE {NoTarget}

\* the layer's arithmetic on V stays within the integers
Exact(L, V, is_training) ==
    L.layer_type = "dropout" /\ ~is_training
        => \A k \in DOMAIN V.w : ScalesExactly(V.w[k], L.drop_prob)

\* the caller has written nothing
NoWrite == [entry |-> 0]

\* no Net is driven
NetIdle ==
    /\ defs = <<>>
    /\ wseed = 0
    /\ layers = <<>>
    /\ acts = <<>>
    /\ op = "idle"
    /\ err = "none"
    /\ console = <<>>
    /\ calls = <<>>
    /\ response = <<>>
    /\ written = NoWrite

InitLayer(Opts) ==
    /\ NetIdle
    /\ target = NoTarget
    /\ opt \in Opts
    /\ \E seed \in 1..MaxSeed : layer = Layer_new(opt, seed)
    /\ in_act = NoVol
    /\ arg = NoVol
    /\ out_act = NoVol
    /\ training = FALSE
    /\ rnd = <<>>
    /\ pc = "new"
    /\ reloaded = FALSE
    /\ ret = Undefined

LForwardAt(at) ==
    /\ pc = at
    /\ \E V \in Inputs(opt), is_training \in BOOLEAN :
         /\ Exact(layer, V, is_training)
         /\ \E r \in IF layer.layer_type = "dropout" /\ is_training
                     THEN Draws(layer.drop_prob, Len(V.w)) ELSE {<<>>} :
              LET st == Layer_forward(layer, V, is_training, r, out_act)
              IN  /\ layer' = st.layer
                  /\ in_act' = IF "in" \in DOMAIN st THEN st.in ELSE V
                  /\ arg' = V
                  /\ out_act' = st.out
                  /\ training' = is_training
                  /\ rnd' = r
    /\ pc' = "fwd"
    /\ UNCHANGED <<opt, target, reloaded, ret, nvars>>

\* the first layer.forward(V, is_training)
LForward == LForwardAt("new")

\* a further layer.forward(V, is_training) on the layer as the last one left it
LForwardAgain == LForwardAt("fwd")

\* the layer above writes the gradient of its input, this layer's out_act
LSetGrad ==
    /\ pc = "fwd"
    /\ layer.layer_type \notin LossTypes
    /\ out_act # NoVol
    /\ \E g \in Vectors(Len(out_act.w)) :
         /\ out_act' = [out_act EXCEPT !.dw = g]
         /\ in_act' = IF layer.layer_type \in PassThrough
                      THEN [out_act EXCEPT !.dw = g] ELSE in_act
    /\ pc' = "grad"
    /\ UNCHANGED <<opt, layer, arg, training, rnd, target, reloaded, ret, nvars>>

LBackward ==
    /\ pc = IF layer.layer_type \in LossTypes THEN "fwd" ELSE "grad"
    /\ \E y \in Targets(layer) :
         LET r == Layer_backward(layer, in_act, out_act, y)
         IN  /\ layer' = r.layer
             /\ in_act' = r.in
             /\ out_act' = IF layer.layer_type \in PassThrough THEN r.in ELSE out_act
             /\ ret' = r.ret
             /\ target' = y
    /\ pc' = "bwd"
    /\ UNCHANGED <<opt, arg, training, rnd, reloaded, nvars>>

\* the layer is replaced by new XLayer().fromJSON(layer.toJSON())
LReload ==
    /\ pc \in {"new", "bwd"}
    /\ ~reloaded
    /\ layer' = Layer_fromJSON(Layer_toJSON(layer))
    /\ in_act' = NoVol
    /\ arg' = NoVol
    /\ out_act' = NoVol
    /\ training' = FALSE
    /\ rnd' = <<>>
    /\ pc' = "new"
    /\ reloaded' = TRUE
    /\ ret' = Undefined
    /\ target' = NoTarget
    /\ UNCHANGED <<opt, nvars>>

LNext == LForward \/ LSetGrad \/ LBackward \/ LReload

ReluOpts ==
    {[type |-> "relu", in_sx |-> 1, in_sy |-> 1, in_depth |-> n] :
        n \in 0..(MaxFullLen + 1)}

InitRelu == InitLayer(ReluOpts)

SpecRelu == InitRelu /\ [][LNext]_vars

(***************************************************************************)
(* C1.  ReluLayer.forward returns a Vol whose every entry, not only the    *)
(* first, is max(0, x) of the input's entry, and leaves the input's w      *)
(* alone.  Stated for the non-empty inputs (for an empty Vol the loop body  *)
(* never runs and nothing is returned).  As stated this fails: only entry  *)
(* 0 is thresholded.                                                       *)
(***************************************************************************)
C1_ReluForwardEveryIndex ==
    (layer.layer_type = "relu" /\ pc = "fwd" /\ in_act.w # <<>>) =>
        /\ out_act # NoVol
        /\ \A k \in DOMAIN in_act.w : out_act.w[k] = Max(0, in_act.w[k])

(***************************************************************************)
(* The layers with parameters.                                             *)
(***************************************************************************)
ConvOpts ==
    {[type |-> "conv", in_sx |-> 2, in_sy |-> 2, in_depth |-> 1,
      sx |-> 2, filters |-> 1, stride |-> 1, pad |-> 1],
     [type |-> "conv", in_sx |-> 3, in_sy |-> 2, in_depth |-> 2,
      sx |-> 2, sy |-> 1, filters |-> 2, stride |-> 2, pad |-> 0],
     [type |-> "conv", in_sx |-> 3, in_sy |-> 3, in_depth |-> 1,
      sx |-> 2, filters |-> 1],
     [type |-> "conv", in_sx |-> 2, in_sy |-> 3, in_depth |-> 1,
      sx |-> 3, filters |-> 1, stride |-> 2, pad |-> 1]}

FcOpts ==
    {[type |-> "fc", in_sx |-> 1, in_sy |-> 1, in_depth |-> 3, num_neurons |-> 2],
     [type |-> "fc", in_sx |-> 2, in_sy |-> 1, in_depth |-> 2, num_neurons |-> 1]}

InitDot == InitLayer(ConvOpts \cup FcOpts)

SpecDot == InitDot /\ [][LNext]_vars

\* forward in inference mode: the output values
Out(L, V) == Layer_forward(L, V, FALSE, <<>>, NoVol).out.w

\* the sum over the output units of upstream gradient * output
Objective(L, V, g) ==
    LET o == Out(L, V)
    IN  SumOver(1, Len(g), [j \in 1..Len(g) |-> g[j] * o[j]])

(***************************************************************************)
(* C8.  For a conv or fc layer whose parameter gradients were zero, after  *)
(* one forward and backward the gradient of every filter weight and every  *)
(* bias is the change of sum_j upstream_grad[j] * output[j] when that one  *)
(* parameter is raised by one and forward is run again.                    *)
(***************************************************************************)
C8_GradientCheck ==
    (layer.layer_type \in {"conv", "fc"} /\ pc = "bwd") =>
        LET g    == out_act.dw
            base == Objective(layer, in_act, g)
        IN  \A i \in DOMAIN layer.filters :
              /\ \A k \in DOMAIN layer.filters[i].w :
                    layer.filters[i].dw[k] =
                        Objective([layer EXCEPT !.filters[i].w[k] = @ + 1], in_act, g)
                          - base
              /\ layer.biases.dw[i] =
                    Objective([layer EXCEPT !.biases.w[i] = @ + 1], in_act, g) - base

\* a conv layer and an fc-sized upstream gradient both leave non-zero
\* filter and bias gradients
C8_Witness ==
    /\ layer.layer_type = "conv"
    /\ pc = "bwd"
    /\ \E k \in DOMAIN layer.filters[1].dw : layer.filters[1].dw[k] # 0
    /\ layer.biases.dw[1] # 0
    /\ Cardinality({j \in DOMAIN out_act.dw : out_act.dw[j] # 0}) > 1

\* the sum of f[t] over the t of the finite set S
RECURSIVE SumSet(_, _)
SumSet(S, f) ==
    IF S = {} THEN 0
    ELSE LET t == CHOOSE t \in S : TRUE
         IN  f[t] + SumSet(S \ {t}, f)

\* (x, y) lies inside [0, V.sx) x [0, V.sy)
InInput(V, x, y) == x >= 0 /\ x < V.sx /\ y >= 0 /\ y < V.sy

(***************************************************************************)
(* C9.  The output of ConvLayer.forward at (ax, ay, d) is the bias of d    *)
(* plus the sum of filter weight * input value over the filter positions   *)
(* (fx, fy) and input channels fd whose input coordinate                   *)
(* (ax*stride - pad + fx, ay*stride - pad + fy) lies inside the input;     *)
(* the coordinates outside add nothing.  In backward, from zero parameter  *)
(* gradients, an input position receives filter weight * upstream          *)
(* gradient only from the windows that hold it, and a filter weight        *)
(* receives input value * upstream gradient only from the windows where    *)
(* its coordinate lies inside the input.                                   *)
(***************************************************************************)
C9_ConvEdgePolicy ==
    (layer.layer_type = "conv" /\ pc \in {"fwd", "grad", "bwd"}) =>
        LET L  == layer
            V  == in_act
            Fs == (0..(L.sx - 1)) \X (0..(L.sy - 1))
            As == (0..(L.out_sx - 1)) \X (0..(L.out_sy - 1))
            Ds == 0..(L.out_depth - 1)
            Cs == 0..(L.in_depth - 1)
            ox(a, t) == a[1] * L.stride - L.pad + t[1]
            oy(a, t) == a[2] * L.stride - L.pad + t[2]
        IN  /\ \A a \in As, d \in Ds :
                 Vol_get(out_act, a[1], a[2], d) =
                     L.biases.w[d + 1]
                       + SumSet({t \in Fs \X Cs : InInput(V, ox(a, t[1]), oy(a, t[1]))},
                                [t \in Fs \X Cs |->
                                    Vol_get(L.filters[d + 1], t[1][1], t[1][2], t[2])
                                      * Vol_get(V, ox(a, t[1]), oy(a, t[1]), t[2])])
            /\ pc = "bwd" =>
                 \A x \in 0..(V.sx - 1), y \in 0..(V.sy - 1), c \in Cs :
                    Vol_get_grad(V, x, y, c) =
                        SumSet({u \in As \X Fs \X Ds :
                                   ox(u[1], u[2]) = x /\ oy(u[1], u[2]) = y},
                               [u \in As \X Fs \X Ds |->
                                   Vol_get(L.filters[u[3] + 1], u[2][1], u[2][2], c)
                                     * Vol_get_grad(out_act, u[1][1], u[1][2], u[3])])
            /\ (pc = "bwd") =>
                 \A d \in Ds, t \in Fs, c \in Cs :
                    Vol_get_grad(L.filters[d + 1], t[1], t[2], c) =
                        SumSet({a \in As : InInput(V, ox(a, t), oy(a, t))},
                               [a \in As |->
                                   Vol_get(V, ox(a, t), oy(a, t), c)
                                     * Vol_get_grad(out_act, a[1], a[2], d)])

\* a padded conv layer ran forward and backward on a non-zero input, with a
\* non-zero upstream gradient at the corner output, whose window reaches
\* outside the input
C9_Witness ==
    /\ layer.layer_type = "conv"
    /\ pc = "bwd"
    /\ layer.pad > 0
    /\ Vol_get_grad(out_act, 0, 0, 0) # 0
    /\ Vol_get(in_act, 0, 0, 0) # 0
    /\ Vol_get_grad(in_act, 0, 0, 0) # 0

(***************************************************************************)
(* The loss layers.                                                        *)
(***************************************************************************)
LossOpts ==
    {[type |-> t, in_sx |-> 1, in_sy |-> 1, in_depth |-> n] :
        t \in LossTypes, n \in 1..(MaxFullLen + 1)}

InitLoss == InitLayer(LossOpts)

SpecLoss == InitLoss /\ [][LForward \/ LBackward \/ LReload]_vars

(***************************************************************************)
(* The constructors of ConvLayer and PoolLayer run on a range of sizes.    *)
(***************************************************************************)
NoLayer == [layer_type |-> "none"]

\* the filter fits into the padded input; stride and pad given
SizeOptsGiven ==
    {o \in [type : {"conv", "pool"}, in_sx : 1..MaxIn, in_sy : {3, 5}, in_depth : {1},
            filters : {1}, sx : 1..MaxFilter, sy : {1, 3},
            stride : 1..MaxStride, pad : 0..MaxPad] :
        o.sx <= o.in_sx + 2 * o.pad}

\* stride, pad and sy left to their defaults
SizeOptsDefault ==
    {o \in [type : {"conv", "pool"}, in_sx : 1..MaxIn, in_sy : {3, 5}, in_depth : {1},
            filters : {1}, sx : 1..MaxFilter] :
        o.sx <= o.in_sx /\ o.sx <= o.in_sy}

InitSize ==
    /\ NetIdle
    /\ target = NoTarget
    /\ opt \in SizeOptsGiven \cup SizeOptsDefault
    /\ layer = NoLayer
    /\ in_act = NoVol
    /\ arg = NoVol
    /\ out_act = NoVol
    /\ training = FALSE
    /\ rnd = <<>>
    /\ pc = "new"
    /\ reloaded = FALSE
    /\ ret = Undefined

\* new ConvLayer(opt) / new PoolLayer(opt)
Construct ==
    /\ layer = NoLayer
    /\ \E seed \in 1..MaxSeed : layer' = Layer_new(opt, seed)
    /\ UNCHANGED <<opt, in_act, arg, out_act, training, rnd, target, pc, reloaded, ret, nvars>>

SpecSize == InitSize /\ [][Construct]_vars

\* the last input coordinate (padding included) the window of output column
\* (row) a covers, the filter being f wide (high)
WindowEnd(L, a, f) == WindowStart(L, a) + f - 1

(***************************************************************************)
(* C10.  ConvLayer and PoolLayer compute each spatial output size as       *)
(* floor((in + 2*pad - filter) / stride + 1): in_sx = 5, sx = 3,           *)
(* stride = 1 gives 3 with pad = 0 and 5 with pad = 1.  Every window       *)
(* applied lies inside the padded input [-pad, in + pad), and one more     *)
(* application would run off it.                                           *)
(***************************************************************************)
C10_OutputSize ==
    layer.layer_type \in {"conv", "pool"} =>
        LET L == layer
        IN  \* out - 1 is the floor of (in + 2*pad - filter) / stride
            /\ (L.out_sx - 1) * L.stride <= L.in_sx + 2 * L.pad - L.sx
            /\ L.in_sx + 2 * L.pad - L.sx < L.out_sx * L.stride
            /\ (L.out_sy - 1) * L.stride <= L.in_sy + 2 * L.pad - L.sy
            /\ L.in_sy + 2 * L.pad - L.sy < L.out_sy * L.stride
            /\ (L.in_sx = 5 /\ L.sx = 3 /\ L.stride = 1 /\ L.pad = 0) => L.out_sx = 3
            /\ (L.in_sx = 5 /\ L.sx = 3 /\ L.stride = 1 /\ L.pad = 1) => L.out_sx = 5
            /\ \A ax \in 0..(L.out_sx - 1) :
                  /\ WindowStart(L, ax) >= 0 - L.pad
                  /\ WindowEnd(L, ax, L.sx) <= L.in_sx + L.pad - 1
            /\ \A ay \in 0..(L.out_sy - 1) :
                  /\ WindowStart(L, ay) >= 0 - L.pad
                  /\ WindowEnd(L, ay, L.sy) <= L.in_sy + L.pad - 1
            /\ WindowEnd(L, L.out_sx, L.sx) > L.in_sx + L.pad - 1
            /\ WindowEnd(L, L.out_sy, L.sy) > L.in_sy + L.pad - 1

\* a padded conv layer whose final application along x is incomplete and
\* trimmed
C10_Witness ==
    /\ layer.layer_type = "conv"
    /\ layer.stride = 2
    /\ (layer.in_sx + 2 * layer.pad - layer.sx) % layer.stride # 0
    /\ layer.out_sx > 1
    /\ layer.pad = 1

(***************************************************************************)
(* The layers that keep switches or a mask.                                *)
(***************************************************************************)
PoolOpts ==
    {[type |-> "pool", in_sx |-> 2, in_sy |-> 2, in_depth |-> 1, sx |-> 2],
     [type |-> "pool", in_sx |-> 3, in_sy |-> 2, in_depth |-> 1, sx |-> 2, stride |-> 1],
     [type |-> "pool", in_sx |-> 2, in_sy |-> 1, in_depth |-> 2,
      sx |-> 2, sy |-> 1, stride |-> 1, pad |-> 1]}

MaxoutOpts ==
    {[type |-> "maxout", in_sx |-> 1, in_sy |-> 1, in_depth |-> 2],
     [type |-> "maxout", in_sx |-> 1, in_sy |-> 1, in_depth |-> 6, group_size |-> 2],
     [type |-> "maxout", in_sx |-> 1, in_sy |-> 1, in_depth |-> 3, group_size |-> 3],
     [type |-> "maxout", in_sx |-> 2, in_sy |-> 1, in_depth |-> 2, group_size |-> 2],
     [type |-> "maxout", in_sx |-> 2, in_sy |-> 2, in_depth |-> 4, group_size |-> 2]}

DropoutOpts ==
    {[type |-> "dropout", in_sx |-> 1, in_sy |-> 1, in_depth |-> 2],
     [type |-> "dropout", in_sx |-> 1, in_sy |-> 1, in_depth |-> 2, drop_prob |-> 0],
     [type |-> "dropout", in_sx |-> 1, in_sy |-> 2, in_depth |-> 1, drop_prob |-> 2]}

InitSwitch == InitLayer(PoolOpts \cup MaxoutOpts \cup DropoutOpts)

SpecSwitch == InitSwitch /\ [][LNext]_vars

\* the switch / mask array of a pool, maxout or dropout layer
Placeholder(L) ==
    CASE L.layer_type = "pool"    -> L.switchx
      [] L.layer_type = "maxout"  -> L.switches
      [] L.layer_type = "dropout" -> L.dropped

\* the gradient a layer built by the constructor from opt leaves in its input
\* after the forward and backward the reloaded layer just ran
OriginalRouting ==
    LET f == Layer_forward(Layer_new(opt, 1), in_act, training, rnd, NoVol)
    IN  Layer_backward(f.layer, in_act, [f.out EXCEPT !.dw = out_act.dw], NoTarget).in.dw

(***************************************************************************)
(* C7.  fromJSON of a pool, maxout or dropout layer rebuilds the switch /  *)
(* mask array with the number of entries the constructor allocates,        *)
(* out_sx * out_sy * out_depth, so that a forward and a backward on the    *)
(* reloaded layer leave in the input the gradient the original layer       *)
(* leaves.  As stated this fails for maxout, whose fromJSON allocates      *)
(* group_size entries.                                                     *)
(***************************************************************************)
C7_ReloadedPlaceholder ==
    (reloaded /\ layer.layer_type \in {"pool", "maxout", "dropout"}) =>
        /\ Len(Placeholder(layer)) = Len(Placeholder(Layer_new(opt, 1)))
        /\ Len(Placeholder(layer)) = layer.out_sx * layer.out_sy * layer.out_depth
        /\ pc = "bwd" => in_act.dw = OriginalRouting

(***************************************************************************)
(* Net.                                                                    *)
(***************************************************************************)
\* o with field f set to v (o.f = v)
With(o, f, v) == [k \in DOMAIN o \cup {f} |-> IF k = f THEN v ELSE o[k]]

\* util.assert(condition, message): throws an Error when the condition fails
assert(condition) == IF condition THEN "none" ELSE "Error"

Activations == {"relu", "sigmoid", "tanh", "maxout"}

\* what desugar pushes for one def, in order
desugar_def(def) ==
    LET fc   == IF def.type \in LossTypes
                THEN <<[type |-> "fc", num_neurons |-> def.num_classes]>>
                ELSE <<>>
        own  == IF def.type \in {"fc", "conv"} /\ ~Has(def, "bias_pref")
                THEN With(def, "bias_pref",
                          IF Has(def, "activation") /\ def.activation = "relu"
                          THEN ReluBiasPref ELSE 0)
                ELSE def
        act  == IF ~Has(def, "activation") THEN <<>>
                ELSE IF def.activation \in {"relu", "sigmoid", "tanh"}
                THEN <<[type |-> def.activation]>>
                ELSE IF def.activation = "maxout"
                THEN <<[type |-> "maxout",
                        group_size |-> IF Has(def, "group_size")
                                       THEN def.group_size ELSE 2]>>
                ELSE <<>>
        drop == IF Has(def, "drop_prob") /\ def.type # "dropout"
                THEN <<[type |-> "dropout", drop_prob |-> def.drop_prob]>>
                ELSE <<>>
    IN  fc \o <<own>> \o act \o drop

\* what desugar writes with console.log for one def
desugar_log(def) ==
    IF Has(def, "activation") /\ def.activation \notin Activations
    THEN <<[msg |-> "ERROR unsupported activation", activation |-> def.activation]>>
    ELSE <<>>

\* desugar(defs): the loop over i from i on (i counts from 1 here)
RECURSIVE desugar(_, _)
desugar(ds, i) ==
    IF i > Len(ds) THEN [new_defs |-> <<>>, log |-> <<>>]
    ELSE LET rest == desugar(ds, i + 1)
         IN  [new_defs |-> desugar_def(ds[i]) \o rest.new_defs,
              log |-> desugar_log(ds[i]) \o rest.log]

\* a creation loop that hands every layer the dimensions of the input layer
RECURSIVE makeLayers_create_inputDims(_, _, _, _)
makeLayers_create_inputDims(ls, new_defs, s, i) ==
    IF i > Len(new_defs) THEN ls
    ELSE LET def == IF i > 1
                    THEN With(With(With(new_defs[i],
                             "in_sx", ls[1].out_sx),
                             "in_sy", ls[1].out_sy),
                             "in_depth", ls[1].out_depth)
                    ELSE new_defs[i]
         IN  makeLayers_create_inputDims(Append(ls, Layer_new(def, s + i)),
                                         new_defs, s, i + 1)

\* the loop creating the layers, from def i on (i counts from 1 here)
RECURSIVE makeLayers_create(_, _, _, _)
makeLayers_create(ls, new_defs, s, i) ==
    IF i > Len(new_defs) THEN ls
    ELSE LET def == IF i > 1
                    THEN With(With(With(new_defs[i],
                             "in_sx", ls[i - 1].out_sx),
                             "in_sy", ls[i - 1].out_sy),
                             "in_depth", ls[i - 1].out_depth)
                    ELSE new_defs[i]
         IN  makeLayers_create(Append(ls, Layer_new(def, s + i)), new_defs, s, i + 1)

\* net.makeLayers(ds): what is thrown, the layers built and the messages logged
makeLayers(ds, s) ==
    IF assert(Len(ds) >= 2) # "none" THEN [err |-> "Error"]
    ELSE IF assert(ds[1].type = "input") # "none" THEN [err |-> "Error"]
    ELSE LET d == desugar(ds, 1)
         IN  [err |-> "none",
              layers |-> makeLayers_create(<<>>, d.new_defs, s, 1),
              log |-> d.log]

\* net.makeLayers(ds) that empties net.layers before its checks
Net_makeLayers_cleared(ls, ds, s) ==
    LET Made(r) == IF r.err = "none" THEN r
                   ELSE [err |-> r.err, layers |-> <<>>, log |-> <<>>]
    IN  Made(makeLayers(ds, s))

\* net.makeLayers(ds) on a net holding the layers ls: what is thrown,
\* net.layers after the call and the messages logged.  The checks throw
\* before this.layers is assigned.
Net_makeLayers(ls, ds, s) ==
    LET Made(r) == IF r.err = "none" THEN r
                   ELSE [err |-> r.err, layers |-> ls, log |-> <<>>]
    IN  Made(makeLayers(ds, s))

\* acts[j] and acts[k] are one object: every layer between them hands its
\* input on as its output
SameObject(ls, j, k) ==
    \A m \in 1..Len(ls) :
        (m > j /\ m <= k) \/ (m > k /\ m <= j) => ls[m].layer_type \in PassThrough

\* the object acts[k] replaced by vol
Write(ls, as, k, vol) ==
    [j \in DOMAIN as |-> IF SameObject(ls, j, k) THEN vol ELSE as[j]]

\* Vol objects are told apart by where they were made: 0 is the Vol the
\* caller handed to net.forward, k the Vol the forward of layers[k - 1] made,
\* NoObject is undefined
NoObject == 0 - 1

\* the object a layer's forward leaves in this.out_act: the Vol it was given
\* or the one it made
Layer_forward_out(L, given, own) ==
    IF L.layer_type \in PassThrough THEN given ELSE own

\* the object a relu layer's forward returns when it always falls off its loop
Layer_forward_returns_nothing(L, V, out) ==
    IF L.layer_type = "relu" THEN NoObject ELSE out

\* the object a layer's forward returns, out being its this.out_act: relu
\* returns from inside its loop and falls off it on an empty Vol
Layer_forward_returns(L, V, out) ==
    IF L.layer_type = "relu" /\ Len(V.w) = 0 THEN NoObject ELSE out

\* the loop of forward over the layers from layer i on: st = [layers, acts,
\* calls, act], act the object the last forward returned
RECURSIVE Net_forward_loop(_, _, _, _)
Net_forward_loop(st, is_training, R, i) ==
    IF i > Len(st.layers) THEN st
    ELSE LET L == st.layers[i]
             f == Layer_forward(L, st.acts[i - 1], is_training, R[i], st.acts[i])
             out == Layer_forward_out(L, st.act, i)
             Called(returned) ==
                 [layers |-> [st.layers EXCEPT ![i] = f.layer],
                  acts   |-> [st.acts EXCEPT ![i] = f.out],
                  calls  |-> Append(st.calls,
                                [method |-> "forward", layer |-> i - 1,
                                 in_act |-> st.act, out_act |-> out,
                                 returned |-> returned]),
                  act    |-> returned]
         IN  Net_forward_loop(
                 Called(Layer_forward_returns(L, st.acts[i - 1], out)),
                 is_training, R, i + 1)

\* net.forward(V, is_training): the layers and their activations after it;
\* R[i] holds the draws of layer i
Net_forward(ls, as, V, is_training, R) ==
    Net_forward_loop(
        [layers |-> ls,
         acts   |-> [k \in 0..Len(ls) |->
                        IF k = 0 THEN V
                        ELSE IF k \in DOMAIN as THEN as[k] ELSE NoVol],
         calls  |-> <<>>,
         act    |-> 0],
        is_training, R, 1)

\* v || 0
OrZero(v) == IF v \in {NaN, Undefined} THEN Val(0) ELSE v

\* smartBackward without its test of the target: a target that is no number
\* equals no class index
smartBackward_noCheck(y, L, x, out) ==
    LET Returned(r)     == [err |-> "none", layer |-> L, in |-> r.in, ret |-> r.ret,
                            raw |-> r.ret]
        ReturnedOr0(r)  == [err |-> "none", layer |-> r.layer, in |-> r.in,
                            ret |-> OrZero(r.ret), raw |-> r.ret]
    IN  IF L.layer_type = "regression"
        THEN Returned(RegressionLayer_backward(L, x, y))
        ELSE ReturnedOr0(Layer_backward(L, x, out,
                                        IF IsObject(y) THEN Number(-1) ELSE y))

\* smartBackward(y, layer): what is thrown, the layer and its input Vol after
\* it, and the value returned
smartBackward(y, L, x, out) ==
    LET Returned(r)     == [err |-> "none", layer |-> L, in |-> r.in, ret |-> r.ret,
                            raw |-> r.ret]
        ReturnedOr0(r)  == [err |-> "none", layer |-> r.layer, in |-> r.in,
                            ret |-> OrZero(r.ret), raw |-> r.ret]
    IN  IF L.layer_type = "regression"
        THEN Returned(RegressionLayer_backward(L, x, y))
        ELSE IF IsObject(y)
        THEN [err |-> "InvalidCostType", layer |-> L, in |-> x, ret |-> Undefined]
        ELSE ReturnedOr0(Layer_backward(L, x, out, y))

\* n real numbers the model does not track
Untracked(n) == [k \in 1..n |-> Real]

\* the gradients below a softmax over several classes are products and sums
\* of its probabilities: real numbers the model does not track
GradUntracked(ls) ==
    ls[Len(ls)].layer_type = "softmax" /\ ls[Len(ls)].out_depth > 1

\* layer.backward() on untracked gradients: every gradient it writes is one
Layer_backward_untracked(L, V) ==
    [layer |-> IF L.layer_type \in {"conv", "fc"}
               THEN [L EXCEPT
                       !.filters = [i \in DOMAIN L.filters |->
                           [L.filters[i] EXCEPT !.dw = Untracked(Len(L.filters[i].w))]],
                       !.biases.dw = Untracked(Len(L.biases.w))]
               ELSE L,
     in |-> IF L.layer_type = "input" THEN V
            ELSE [V EXCEPT !.dw = Untracked(Len(V.w))]]

\* the loop of backward over the layers from layer i down: st = [layers, acts]
RECURSIVE Net_backward_loop(_, _)
Net_backward_loop(st, i) ==
    IF i < 1 THEN st
    ELSE LET L == st.layers[i]
             r == IF GradUntracked(st.layers)
                  THEN Layer_backward_untracked(L, st.acts[i - 1])
                  ELSE Layer_backward(L, st.acts[i - 1], st.acts[i], NoTarget)
         IN  Net_backward_loop(
                 [layers |-> [st.layers EXCEPT ![i] = r.layer],
                  acts   |-> Write(st.layers, st.acts, i - 1, r.in),
                  calls  |-> Append(st.calls,
                                [method |-> "backward", layer |-> i - 1,
                                 y |-> NoTarget, returned |-> Undefined])],
                 i - 1)

\* net.backward(y): what is thrown, the layers and activations after it and
\* the loss returned
Net_backward(ls, as, y) ==
    LET N == Len(ls)
    IN  IF DOMAIN as = {}
        THEN \* no forward yet: the layer has no in_act
             IF ls[N].layer_type # "regression" /\ IsObject(y)
             THEN [err |-> "InvalidCostType", layers |-> ls, acts |-> as,
                   ret |-> Undefined, calls |-> <<>>]
             ELSE [err |-> "TypeError", layers |-> ls, acts |-> as,
                   ret |-> Undefined,
                   calls |-> <<[method |-> "backward", layer |-> N - 1,
                                y |-> y, returned |-> Undefined]>>]
        ELSE LET Looped(st, loss) ==
                     [err |-> "none", layers |-> st.layers, acts |-> st.acts,
                      ret |-> loss, calls |-> st.calls]
                 After(r) ==
                     IF r.err # "none"
                     THEN [err |-> r.err, layers |-> [ls EXCEPT ![N] = r.layer],
                           acts |-> Write(ls, as, N - 1, r.in), ret |-> Undefined,
                           calls |-> <<>>]
                     ELSE Looped(Net_backward_loop(
                                     [layers |-> [ls EXCEPT ![N] = r.layer],
                                      acts   |-> Write(ls, as, N - 1, r.in),
                                      calls  |-> <<[method |-> "backward",
                                                    layer |-> N - 1, y |-> y,
                                                    returned |-> r.raw]>>],
                                     N - 1),
                                 r.ret)
             IN  After(smartBackward(y, ls[N], as[N - 1], as[N]))

\* net.getCostLoss(V, y): forward in inference mode, then smartBackward
Net_getCostLoss(ls, as, V, y, R) ==
    LET N == Len(ls)
        Returned(f, r) ==
            [err |-> r.err, layers |-> [f.layers EXCEPT ![N] = r.layer],
             acts |-> Write(f.layers, f.acts, N - 1, r.in), ret |-> r.ret,
             calls |-> IF r.err # "none" THEN f.calls
                       ELSE Append(f.calls,
                                [method |-> "backward", layer |-> N - 1,
                                 y |-> y, returned |-> r.raw])]
        Forwarded(f) ==
            Returned(f, smartBackward(y, f.layers[N], f.acts[N - 1], f.acts[N]))
    IN  Forwarded(Net_forward(ls, as, V, FALSE, R))

\* p[i] > maxv on the class probabilities of one forward, which share their
\* denominator
Exceeds(a, b) == a.e > b.e

\* the loop of getPrediction that prefers the later of equal probabilities
RECURSIVE Net_getPrediction_loop_lastMax(_, _, _, _)
Net_getPrediction_loop_lastMax(p, maxv, maxi, i) ==
    IF i >= Len(p) THEN maxi
    ELSE IF ~Exceeds(maxv, p[i + 1])
    THEN Net_getPrediction_loop_lastMax(p, p[i + 1], i, i + 1)
    ELSE Net_getPrediction_loop_lastMax(p, maxv, maxi, i + 1)

\* for (let i = 1; i < p.length; i++) if (p[i] > maxv) { maxv = p[i]; maxi = i; }
RECURSIVE Net_getPrediction_loop(_, _, _, _)
Net_getPrediction_loop(p, maxv, maxi, i) ==
    IF i >= Len(p) THEN maxi
    ELSE IF Exceeds(p[i + 1], maxv)
    THEN Net_getPrediction_loop(p, p[i + 1], i, i + 1)
    ELSE Net_getPrediction_loop(p, maxv, maxi, i + 1)

\* Net.getPrediction: S.layer_type of no layer and S.out_act.w of a layer
\* that ran no forward are TypeErrors; a last layer that is no softmax
\* fails the assert, or else reaches the throw
Net_getPrediction(ls, as) ==
    LET N == Len(ls)
    IN  IF N = 0 THEN [err |-> "TypeError", ret |-> Undefined]
        ELSE IF ls[N].layer_type # "softmax"
        THEN [err |-> "Error", ret |-> Undefined]
        ELSE IF ~(N \in DOMAIN as /\ Has(as[N], "w"))
        THEN [err |-> "TypeError", ret |-> Undefined]
        ELSE [err |-> "none",
              ret |-> Val(Net_getPrediction_loop(as[N].w, as[N].w[1], 0, 1))]

\* an array of a layer's parameters: the w or the dw of its k-th filter or of
\* its biases
FilterArray(i, k, array) == [layer |-> i, filter |-> k, array |-> array]

BiasArray(i, array) == [layer |-> i, biases |-> TRUE, array |-> array]

\* the array an entry of the response holds: one a layer keeps, or a copy
Array(ls, a) ==
    IF ~Has(a, "layer") THEN a.copy
    ELSE IF Has(a, "biases") THEN ls[a.layer + 1].biases[a.array]
    ELSE ls[a.layer + 1].filters[a.filter + 1][a.array]

\* the layers after a[j] = v, a an array an entry of the response holds
Stored(ls, a, j, v) ==
    LET L == ls[a.layer + 1]
        Set(T) == [T EXCEPT ![a.array] = [k \in DOMAIN T[a.array] |->
                                            IF k = j THEN v ELSE T[a.array][k]]]
    IN  IF ~Has(a, "layer") THEN ls
        ELSE IF Has(a, "biases")
        THEN [ls EXCEPT ![a.layer + 1] = [L EXCEPT !.biases = Set(L.biases)]]
        ELSE [ls EXCEPT ![a.layer + 1] =
                [L EXCEPT !.filters =
                    [n \in DOMAIN L.filters |->
                        IF n = a.filter + 1 THEN Set(L.filters[n])
                        ELSE L.filters[n]]]]

\* ConvLayer.getParamsAndGrads of layer i
ConvLayer_getParamsAndGrads(L, i) ==
    [k \in 1..L.out_depth |->
        [params |-> FilterArray(i, k - 1, "w"), grads |-> FilterArray(i, k - 1, "dw"),
         l2_decay_mul |-> L.l2_decay_mul, l1_decay_mul |-> L.l1_decay_mul]]
    \o <<[params |-> BiasArray(i, "w"), grads |-> BiasArray(i, "dw"),
          l1_decay_mul |-> 0, l2_decay_mul |-> 0]>>

\* getParamsAndGrads that hands out copies of the arrays
FullyConnLayer_getParamsAndGrads_copies(L, i) ==
    [k \in 1..L.out_depth |->
        [params |-> [copy |-> L.filters[k].w], grads |-> [copy |-> L.filters[k].dw],
         l1_decay_mul |-> L.l1_decay_mul, l2_decay_mul |-> L.l2_decay_mul]]
    \o <<[params |-> [copy |-> L.biases.w], grads |-> [copy |-> L.biases.dw],
          l1_decay_mul |-> 0, l2_decay_mul |-> 0]>>

\* getParamsAndGrads whose bias entry decays like the filters
FullyConnLayer_getParamsAndGrads_decayedBias(L, i) ==
    [k \in 1..L.out_depth |->
        [params |-> FilterArray(i, k - 1, "w"), grads |-> FilterArray(i, k - 1, "dw"),
         l1_decay_mul |-> L.l1_decay_mul, l2_decay_mul |-> L.l2_decay_mul]]
    \o <<[params |-> BiasArray(i, "w"), grads |-> BiasArray(i, "dw"),
          l1_decay_mul |-> L.l1_decay_mul, l2_decay_mul |-> L.l2_decay_mul]>>

\* FullyConnLayer.getParamsAndGrads of layer i
FullyConnLayer_getParamsAndGrads(L, i) ==
    [k \in 1..L.out_depth |->
        [params |-> FilterArray(i, k - 1, "w"), grads |-> FilterArray(i, k - 1, "dw"),
         l1_decay_mul |-> L.l1_decay_mul, l2_decay_mul |-> L.l2_decay_mul]]
    \o <<[params |-> BiasArray(i, "w"), grads |-> BiasArray(i, "dw"),
          l1_decay_mul |-> 0, l2_decay_mul |-> 0]>>

\* layer.getParamsAndGrads() of layer i: every other layer returns []
Layer_getParamsAndGrads(L, i) ==
    IF L.layer_type = "conv" THEN ConvLayer_getParamsAndGrads(L, i)
    ELSE IF L.layer_type = "fc" THEN FullyConnLayer_getParamsAndGrads(L, i)
    ELSE <<>>

\* net.getParamsAndGrads(): the loop over the layers from layer i on (i
\* counts from 1 here)
RECURSIVE Net_getParamsAndGrads(_, _)
Net_getParamsAndGrads(ls, i) ==
    IF i > Len(ls) THEN <<>>
    ELSE Layer_getParamsAndGrads(ls[i], i - 1) \o Net_getParamsAndGrads(ls, i + 1)

Net_toJSON(ls) == [layers |-> [i \in 1..Len(ls) |-> Layer_toJSON(ls[i])]]

Net_fromJSON(json) == [i \in 1..Len(json.layers) |-> Layer_fromJSON(json.layers[i])]

(***************************************************************************)
(* A Net driven by a caller.                                               *)
(***************************************************************************)
Input2 == [type |-> "input", out_sx |-> 1, out_sy |-> 1, out_depth |-> 2]

Input2x2 == [type |-> "input", out_sx |-> 2, out_sy |-> 2, out_depth |-> 1]

\* the layer-definition lists handed to makeLayers
NetDefs ==
    << <<Input2, [type |-> "softmax", num_classes |-> 2]>>,
       <<Input2, [type |-> "svm", num_classes |-> 2]>>,
       <<Input2, [type |-> "regression", num_classes |-> 2]>>,
       <<Input2, [type |-> "softmax", num_classes |-> 1]>>,
       <<Input2x2,
         [type |-> "conv", sx |-> 2, filters |-> 1, pad |-> 1, bias_pref |-> 1,
          activation |-> "relu"],
         [type |-> "pool", sx |-> 2],
         [type |-> "svm", num_classes |-> 2]>>,
       <<Input2,
         [type |-> "fc", num_neurons |-> 4, activation |-> "maxout", drop_prob |-> 1],
         [type |-> "regression", num_classes |-> 1]>>,
       <<Input2, [type |-> "fc", num_neurons |-> 1]>>,
       <<Input2, [type |-> "fc", num_neurons |-> 2, activation |-> "linear"],
         [type |-> "softmax", num_classes |-> 2]>>,
       <<Input2>>,
       <<[type |-> "fc", num_neurons |-> 1], [type |-> "softmax", num_classes |-> 2]>>,
       <<Input2, [type |-> "fc", num_neurons |-> 2, activation |-> "relu"],
         [type |-> "softmax", num_classes |-> 2]>>,
       <<Input2, [type |-> "fc", num_neurons |-> 2, activation |-> "sigmoid"],
         [type |-> "fc", num_neurons |-> 2, activation |-> "tanh"],
         [type |-> "regression", num_classes |-> 1]>>,
       <<Input2, [type |-> "dropout", drop_prob |-> 2],
         [type |-> "softmax", num_classes |-> 2]>> >>

\* the net's arithmetic stays within the integers: no sigmoid, no tanh, no
\* bias of 0.1
Runnable(ds) ==
    \A i \in DOMAIN ds :
        Has(ds[i], "activation") =>
            /\ ds[i].activation \notin {"sigmoid", "tanh"}
            /\ ds[i].activation = "relu" => Has(ds[i], "bias_pref")

\* the Vols the caller hands to forward
NetInputs(ls) ==
    LET n == ls[1].out_sx * ls[1].out_sy * ls[1].out_depth
    IN  {VolOf(ls[1].out_sx, ls[1].out_sy, ls[1].out_depth, w) :
            w \in {Pattern(s, n) : s \in 1..MaxSeed} \cup {zeros(n)}}

\* targets that are no numbers
NonScalars(n) ==
    {[kind |-> k, a |-> Pattern(1, n)] : k \in {"array", "f64array"}}
        \cup {[kind |-> "object", dim |-> 0, val |-> 1]}

\* the targets the caller hands to backward and getCostLoss
NetTargets(ls) ==
    LET L == ls[Len(ls)]
    IN  NonScalars(L.out_depth)
          \cup IF L.layer_type \in {"softmax", "svm"}
               THEN {Number(c) : c \in -1..L.out_depth}
               ELSE {Number(c) : c \in {0, 1}}

\* the draws of a forward: R[i] for the dropout layer i in training mode
NetDraws(ls, is_training) ==
    LET D(i) == IF ls[i].layer_type = "dropout" /\ is_training
                THEN Draws(ls[i].drop_prob,
                           ls[i].out_sx * ls[i].out_sy * ls[i].out_depth)
                ELSE {<<>>}
    IN  {R \in [1..Len(ls) -> UNION {D(i) : i \in 1..Len(ls)}] :
            \A i \in 1..Len(ls) : R[i] \in D(i)}

\* every dropout layer scaled its input exactly
NetExact(st, is_training) ==
    \A i \in 1..Len(st.layers) :
        Exact(st.layers[i], st.acts[i - 1], is_training)

InitNet ==
    /\ opt = NoLayer
    /\ layer = NoLayer
    /\ in_act = NoVol
    /\ arg = NoVol
    /\ out_act = NoVol
    /\ pc = "idle"
    /\ defs = <<>>
    /\ wseed = 0
    /\ layers = <<>>
    /\ acts = <<>>
    /\ op = "new"
    /\ err = "none"
    /\ console = <<>>
    /\ calls = <<>>
    /\ response = <<>>
    /\ written = NoWrite
    /\ training = FALSE
    /\ rnd = <<>>
    /\ target = NoTarget
    /\ reloaded = FALSE
    /\ ret = Undefined

\* the net holds layers and the caller's last makeLayers call, if it was the
\* last call, returned
Built == layers # <<>> /\ (op = "makeLayers" => err = "none")

NetMakeLayers ==
    /\ layers = <<>>
    /\ \E i \in DOMAIN NetDefs, s \in 1..MaxSeed :
         \E r \in {Net_makeLayers(layers, NetDefs[i], s)} :
             /\ defs' = NetDefs[i]
             /\ wseed' = s
             /\ err' = r.err
             /\ layers' = r.layers
             /\ console' = console \o r.log
    /\ calls' = <<>>
    /\ response' = <<>>
    /\ written' = NoWrite
    /\ op' = "makeLayers"
    /\ UNCHANGED <<lvars, acts, training, rnd, target, reloaded, ret>>

\* net.makeLayers(defs) called again on the net a makeLayers call has just
\* built; every rebuild draws its weights from a later seed
NetMakeLayersAgain ==
    /\ layers # <<>>
    /\ op = "makeLayers"
    /\ err = "none"
    /\ \E i \in DOMAIN NetDefs, s \in (wseed + 1)..MaxSeed :
         \E r \in {Net_makeLayers(layers, NetDefs[i], s)} :
             /\ defs' = NetDefs[i]
             /\ wseed' = s
             /\ err' = r.err
             /\ layers' = r.layers
             /\ console' = console \o r.log
    /\ calls' = <<>>
    /\ response' = <<>>
    /\ written' = NoWrite
    /\ op' = "makeLayers"
    /\ UNCHANGED <<lvars, acts, training, rnd, target, reloaded, ret>>

\* net.forward(V, is_training) after one of the calls ops
NetForwardAfter(ops) ==
    /\ Built
    /\ op \in ops
    /\ Runnable(defs)
    /\ \E V \in NetInputs(layers), is_training \in BOOLEAN :
         \E R \in NetDraws(layers, is_training) :
            \E st \in {Net_forward(layers, acts, V, is_training, R)} :
                /\ NetExact(st, is_training)
                /\ layers' = st.layers
                /\ acts' = st.acts
                /\ calls' = st.calls
                /\ training' = is_training
                /\ rnd' = R
    /\ op' = "forward"
    /\ err' = "none"
    /\ UNCHANGED <<lvars, defs, wseed, console, response, written, target,
                   reloaded, ret>>

\* the first net.forward(V, is_training) on a built or reloaded net
NetForward == NetForwardAfter({"makeLayers", "fromJSON"})

NetBackwardAfter(ops) ==
    /\ Built
    /\ op \in ops
    /\ \E y \in NetTargets(layers) :
         \E r \in {Net_backward(layers, acts, y)} :
             /\ layers' = r.layers
             /\ acts' = r.acts
             /\ calls' = r.calls
             /\ err' = r.err
             /\ ret' = r.ret
             /\ target' = y
    /\ op' = "backward"
    /\ UNCHANGED <<lvars, defs, wseed, console, response, written, training, rnd,
                   reloaded>>

\* net.backward(y)
NetBackward == NetBackwardAfter({"makeLayers", "fromJSON", "forward"})

NetGetCostLoss ==
    /\ Built
    /\ op \in {"makeLayers", "fromJSON"}
    /\ Runnable(defs)
    /\ \E V \in NetInputs(layers), y \in NetTargets(layers) :
         \E R \in NetDraws(layers, FALSE) :
            \E r \in {Net_getCostLoss(layers, acts, V, y, R)} :
                /\ NetExact(r, FALSE)
                /\ layers' = r.layers
                /\ acts' = r.acts
                /\ calls' = r.calls
                /\ err' = r.err
                /\ ret' = r.ret
                /\ target' = y
                /\ rnd' = R
    /\ training' = FALSE
    /\ op' = "getCostLoss"
    /\ UNCHANGED <<lvars, defs, wseed, console, response, written, reloaded>>

\* response = net.getParamsAndGrads(), which the caller keeps
NetGetParamsAndGrads ==
    /\ Built
    /\ err = "none"
    /\ response = <<>>
    /\ response' = Net_getParamsAndGrads(layers, 1)
    /\ UNCHANGED <<lvars, defs, wseed, layers, acts, op, err, console, calls,
                   written, training, rnd, target, reloaded, ret>>

\* net.getPrediction()
NetGetPrediction ==
    /\ op \in {"new", "makeLayers", "fromJSON", "forward", "getCostLoss"}
    /\ layers # <<>> => Built
    /\ \E r \in {Net_getPrediction(layers, acts)} :
         /\ err' = r.err
         /\ ret' = r.ret
    /\ op' = "getPrediction"
    /\ UNCHANGED <<lvars, defs, wseed, layers, acts, console, calls, response,
                   written, training, rnd, target, reloaded>>

\* the values the caller writes into the parameters
TrainerValues == {4, 0 - 4}

\* the caller writes response[k].params[j] = v in place, as a trainer does
NetWrite ==
    /\ response # <<>>
    /\ written = NoWrite
    /\ op \in {"makeLayers", "fromJSON"}
    /\ \E k \in DOMAIN response, v \in TrainerValues :
         \E j \in DOMAIN Array(layers, response[k].params) :
             /\ layers' = Stored(layers, response[k].params, j, v)
             /\ written' = [entry |-> k, index |-> j, value |-> v]
    /\ UNCHANGED <<lvars, defs, wseed, acts, op, err, console, calls, response,
                   training, rnd, target, reloaded, ret>>

\* every parameter gradient of the net lies within -b..b
GradsWithin(ls, b) ==
    \A a \in DOMAIN Net_getParamsAndGrads(ls, 1) :
        \A j \in DOMAIN Array(ls, Net_getParamsAndGrads(ls, 1)[a].grads) :
            /\ Array(ls, Net_getParamsAndGrads(ls, 1)[a].grads)[j] <= b
            /\ Array(ls, Net_getParamsAndGrads(ls, 1)[a].grads)[j] >= 0 - b

\* a further net.forward(V, is_training), after a backward that returned
NetForwardAgain ==
    /\ err = "none"
    /\ written = NoWrite
    /\ GradsWithin(layers, MaxGrad)
    /\ NetForwardAfter({"backward"})
    /\ training' = FALSE

\* the first net.forward(V) on a built net, in inference mode
NetForwardFirst ==
    /\ NetForwardAfter({"makeLayers"})
    /\ training' = FALSE

\* a further net.backward(y), right after a backward that returned
NetBackwardAgain ==
    /\ err = "none"
    /\ written = NoWrite
    /\ GradsWithin(layers, MaxGrad)
    /\ NetBackwardAfter({"backward"})

\* the net is replaced by new Net() with fromJSON(net.toJSON())
NetReload ==
    /\ Built
    /\ ~reloaded
    /\ layers' = Net_fromJSON(Net_toJSON(layers))
    /\ acts' = <<>>
    /\ calls' = <<>>
    /\ response' = <<>>
    /\ written' = NoWrite
    /\ op' = "fromJSON"
    /\ err' = "none"
    /\ reloaded' = TRUE
    /\ training' = FALSE
    /\ rnd' = <<>>
    /\ target' = NoTarget
    /\ ret' = Undefined
    /\ UNCHANGED <<lvars, defs, wseed, console>>

NetNext ==
    \/ NetMakeLayers \/ NetMakeLayersAgain
    \/ NetForward \/ NetBackward \/ NetGetCostLoss \/ NetReload
    \/ NetGetParamsAndGrads \/ NetGetPrediction

SpecNet == InitNet /\ [][NetNext]_vars

(***************************************************************************)
(* A built net driven through forward / backward cycles by a trainer that  *)
(* holds its parameters.                                                   *)
(***************************************************************************)
TrainDefs ==
    {<<Input2, [type |-> "regression", num_classes |-> 1]>>,
     <<Input2, [type |-> "softmax", num_classes |-> 1]>>,
     <<Input2x2,
       [type |-> "conv", sx |-> 2, filters |-> 1, pad |-> 1, bias_pref |-> 1,
        activation |-> "relu"],
       [type |-> "pool", sx |-> 2],
       [type |-> "svm", num_classes |-> 2]>>}

\* the draws of the initial weights
TrainSeeds == {1, 2}

\* net = new Net(); net.makeLayers(defs) has returned
InitTrain ==
    /\ opt = NoLayer
    /\ layer = NoLayer
    /\ in_act = NoVol
    /\ arg = NoVol
    /\ out_act = NoVol
    /\ pc = "idle"
    /\ defs \in TrainDefs
    /\ wseed \in TrainSeeds
    /\ layers = Net_makeLayers(<<>>, defs, wseed).layers
    /\ acts = <<>>
    /\ op = "makeLayers"
    /\ err = "none"
    /\ console = <<>>
    /\ calls = <<>>
    /\ response = <<>>
    /\ written = NoWrite
    /\ training = FALSE
    /\ rnd = <<>>
    /\ target = NoTarget
    /\ reloaded = FALSE
    /\ ret = Undefined

TrainNext ==
    \/ NetForwardFirst \/ NetForwardAgain \/ NetBackward \/ NetBackwardAgain
    \/ NetGetCostLoss
    \/ NetGetParamsAndGrads \/ NetWrite

SpecTrain == InitTrain /\ [][TrainNext]_vars

(***************************************************************************)
(* Claims about a Net.                                                     *)
(***************************************************************************)
\* the last layer of the net
Last(ls) == ls[Len(ls)]

\* the parameter gradients net.getParamsAndGrads() hands out, layer by layer
Net_grads(ls) ==
    [i \in DOMAIN ls |->
        IF ls[i].layer_type \in {"conv", "fc"}
        THEN [filters |-> [j \in DOMAIN ls[i].filters |-> ls[i].filters[j].dw],
              biases  |-> ls[i].biases.dw]
        ELSE [filters |-> <<>>, biases |-> <<>>]]

(***************************************************************************)
(* C2.  A Net that holds layers, after makeLayers returned or after         *)
(* fromJSON, holds at least two, the first an input layer and the last a    *)
(* loss layer (softmax, svm or regression).                                 *)
(***************************************************************************)
C2_NetShape ==
    (layers # <<>>) =>
        /\ Len(layers) >= 2
        /\ layers[1].layer_type = "input"
        /\ Last(layers).layer_type \in LossTypes

(***************************************************************************)
(* C3.  makeLayers handed a definition whose activation is present and is   *)
(* none of relu, sigmoid, tanh, maxout raises an error and builds no        *)
(* network.                                                                 *)
(***************************************************************************)
C3_UnsupportedActivationFails ==
    (/\ op = "makeLayers"
     /\ \E i \in DOMAIN defs :
            Has(defs[i], "activation") /\ defs[i].activation \notin Activations)
        => (err # "none" /\ layers = <<>>)

(***************************************************************************)
(* C4.  Net.backward(y) on a net ending in softmax, after a forward, with   *)
(* a class index y outside 0 .. out_depth - 1 raises an error instead of    *)
(* returning a loss.                                                        *)
(***************************************************************************)
C4_ClassIndexOutOfRangeFails ==
    (/\ op = "backward"
     /\ DOMAIN acts # {}
     /\ Last(layers).layer_type = "softmax"
     /\ target.kind = "number"
     /\ target.v \notin 0..(Last(layers).out_depth - 1))
        => err # "none"

(***************************************************************************)
(* C5.  Net.backward and Net.getCostLoss handed an array, a Float64Array    *)
(* or a keyed object: on a net ending in softmax or svm they throw          *)
(* InvalidCostType and no gradient is written (backward leaves layers and   *)
(* activations as they were; getCostLoss, which runs forward first, leaves  *)
(* the parameter gradients as they were and the gradients of the fresh      *)
(* activations zero); on a net ending in regression they do not throw       *)
(* InvalidCostType.                                                         *)
(***************************************************************************)
C5_InvalidCostType ==
    [][(op' \in {"backward", "getCostLoss"} /\ layers # <<>> /\ IsObject(target')) =>
          /\ Last(layers).layer_type \in {"softmax", "svm"} =>
                /\ err' = "InvalidCostType"
                /\ Net_grads(layers') = Net_grads(layers)
                /\ op' = "backward" => (layers' = layers /\ acts' = acts)
                /\ op' = "getCostLoss" =>
                      \A k \in DOMAIN acts' : acts'[k].dw = zeros(Len(acts'[k].w))
          /\ Last(layers).layer_type = "regression" => err' # "InvalidCostType"
      ]_vars

C5_Witness ==
    /\ op = "backward"
    /\ DOMAIN acts # {}
    /\ Last(layers).layer_type \in {"softmax", "svm"}
    /\ target.kind = "array"
    /\ err = "InvalidCostType"

(***************************************************************************)
(* C6.  A net reloaded with fromJSON(toJSON()) has the layer types of the   *)
(* net makeLayers built, in the same order, and its forward in inference    *)
(* mode puts out the values the built net puts out for the same input.      *)
(***************************************************************************)
C6_RoundTripForward ==
    (reloaded /\ op = "forward" /\ ~training) =>
        \A built \in {makeLayers(defs, wseed).layers} :
            /\ [i \in DOMAIN layers |-> layers[i].layer_type]
                   = [i \in DOMAIN built |-> built[i].layer_type]
            /\ acts[Len(layers)].w
                   = Net_forward(built, <<>>, acts[0], FALSE, rnd).acts[Len(built)].w

C6_Witness ==
    /\ reloaded
    /\ op = "forward"
    /\ ~training
    /\ \E i \in DOMAIN layers : layers[i].layer_type = "conv"
    /\ \E k \in DOMAIN acts[Len(layers)].w : acts[Len(layers)].w[k] # 0

(***************************************************************************)
(* PoolLayer driven by a caller.                                           *)
(***************************************************************************)
InitPool == InitLayer(PoolOpts)

SpecPool == InitPool /\ [][LNext]_vars

\* the output units of a layer: <<ax, ay, d>>
Units(L) == (0..(L.out_sx - 1)) \X (0..(L.out_sy - 1)) \X (0..(L.out_depth - 1))

\* the in-bounds input coordinates <<x, y>> inside the window of output
\* unit (ax, ay)
PoolWindow(L, V, ax, ay) ==
    {c \in (0..(V.sx - 1)) \X (0..(V.sy - 1)) :
        /\ c[1] >= WindowStart(L, ax) /\ c[1] < WindowStart(L, ax) + L.sx
        /\ c[2] >= WindowStart(L, ay) /\ c[2] < WindowStart(L, ay) + L.sy}

\* the place of unit u in the switch arrays (counted from 1): d is the
\* outermost loop, ay the innermost
SwitchIndex(L, u) == (u[3] * L.out_sx + u[1]) * L.out_sy + u[2] + 1

\* the input coordinate recorded for unit u
Winner(L, u) == <<L.switchx[SwitchIndex(L, u)], L.switchy[SwitchIndex(L, u)]>>

(***************************************************************************)
(* C11.  After PoolLayer.forward every output unit (ax, ay, d) whose       *)
(* window holds an in-bounds input coordinate is the maximum of channel d  *)
(* over the in-bounds coordinates of the window, and the switch pair       *)
(* recorded for it is one of those coordinates and holds that maximum.     *)
(***************************************************************************)
C11_PoolForwardMax ==
    (layer.layer_type = "pool" /\ pc = "fwd") =>
        \A u \in Units(layer) :
            LET W == PoolWindow(layer, in_act, u[1], u[2])
                a == Vol_get(out_act, u[1], u[2], u[3])
            IN  W # {} =>
                  /\ \E c \in W : Vol_get(in_act, c[1], c[2], u[3]) = a
                  /\ \A c \in W : Vol_get(in_act, c[1], c[2], u[3]) <= a
                  /\ Winner(layer, u) \in W
                  /\ Vol_get(in_act, Winner(layer, u)[1], Winner(layer, u)[2], u[3]) = a

(***************************************************************************)
(* C12.  After PoolLayer.forward and backward the gradient of the input at *)
(* every position (x, y, d) is the sum of the upstream gradients of the    *)
(* output units of channel d whose recorded winner is (x, y): added up     *)
(* where windows share a winner, zero where no window was won.             *)
(***************************************************************************)
C12_PoolBackwardRouting ==
    (layer.layer_type = "pool" /\ pc = "bwd") =>
        \A x \in 0..(in_act.sx - 1), y \in 0..(in_act.sy - 1),
           d \in 0..(in_act.depth - 1) :
            Vol_get_grad(in_act, x, y, d) =
                SumSet({u \in Units(layer) : u[3] = d /\ Winner(layer, u) = <<x, y>>},
                       [u \in Units(layer) |->
                           Vol_get_grad(out_act, u[1], u[2], u[3])])

\* two overlapping windows won by one input position, both with a non-zero
\* upstream gradient, next to a position that won no window
C12_Witness ==
    /\ layer.layer_type = "pool"
    /\ pc = "bwd"
    /\ \E u1 \in Units(layer), u2 \in Units(layer) :
          /\ u1 # u2
          /\ Winner(layer, u1) = Winner(layer, u2)
          /\ Winner(layer, u1)[1] >= 0
          /\ Vol_get_grad(out_act, u1[1], u1[2], u1[3]) # 0
          /\ Vol_get_grad(out_act, u2[1], u2[2], u2[3]) # 0
          /\ Vol_get_grad(in_act, Winner(layer, u1)[1], Winner(layer, u1)[2], u1[3])
                = Vol_get_grad(out_act, u1[1], u1[2], u1[3])
                    + Vol_get_grad(out_act, u2[1], u2[2], u2[3])
    /\ \E k \in DOMAIN in_act.dw : in_act.dw[k] = 0

(***************************************************************************)
(* MaxoutLayer driven by a caller.                                         *)
(***************************************************************************)
InitMaxout == InitLayer(MaxoutOpts)

SpecMaxout == InitMaxout /\ [][LNext]_vars

\* the input channels of group i
Group(L, i) == (i * L.group_size)..(i * L.group_size + L.group_size - 1)

\* the first channel of group i that holds the group's maximum at (x, y):
\* the channel the strict comparison of forward keeps
GroupWinner(L, V, x, y, i) ==
    CHOOSE c \in Group(L, i) :
        /\ \A c2 \in Group(L, i) : Vol_get(V, x, y, c2) <= Vol_get(V, x, y, c)
        /\ \A c2 \in Group(L, i) : c2 < c => Vol_get(V, x, y, c2) < Vol_get(V, x, y, c)

\* the place of output (x, y, i) in the switches (counted from 0)
MaxoutIndex(L, x, y, i) == ((x * L.out_sy) + y) * L.out_depth + i

(***************************************************************************)
(* C13.  After MaxoutLayer.forward every output channel i at every         *)
(* position is the maximum of the input channels of group i there, and     *)
(* the switch recorded for it is the winning channel; after the following  *)
(* backward the winning channel of every group holds the upstream gradient *)
(* of its output and every other input channel holds zero.                 *)
(***************************************************************************)
C13_MaxoutRouting ==
    (layer.layer_type = "maxout" /\ pc \in {"fwd", "bwd"}) =>
        \A x \in 0..(in_act.sx - 1), y \in 0..(in_act.sy - 1) :
            /\ \A i \in 0..(layer.out_depth - 1) :
                  LET c == GroupWinner(layer, in_act, x, y, i)
                  IN  /\ Vol_get(out_act, x, y, i) = Vol_get(in_act, x, y, c)
                      /\ Switch(layer, MaxoutIndex(layer, x, y, i))
                            = [defined |-> TRUE, v |-> c]
            /\ pc = "bwd" =>
                  \A c \in 0..(in_act.depth - 1) :
                      Vol_get_grad(in_act, x, y, c) =
                          IF /\ c \div layer.group_size < layer.out_depth
                             /\ c = GroupWinner(layer, in_act, x, y,
                                                c \div layer.group_size)
                          THEN Vol_get_grad(out_act, x, y, c \div layer.group_size)
                          ELSE 0

(***************************************************************************)
(* Dropout layers driven through any number of forward calls.              *)
(***************************************************************************)
InitDropout == InitLayer(DropoutOpts)

SpecDropout == InitDropout /\ [][LNext \/ LForwardAgain]_vars

\* C14: after DropoutLayer.forward in inference mode, whatever mask and
\* whatever earlier calls the layer has seen, every output unit is the input
\* unit times drop_prob (so the output is determined by the input alone and
\* two calls on the same input agree), and the input Vol is as the caller
\* handed it.
C14_InferenceDeterministic ==
    (layer.layer_type = "dropout" /\ pc = "fwd" /\ ~training) =>
        /\ in_act = arg
        /\ Len(out_act.w) = Len(arg.w)
        /\ \A k \in DOMAIN arg.w : 2 * out_act.w[k] = arg.w[k] * layer.drop_prob

\* an inference forward, on a layer whose mask an earlier training forward
\* left set, scaled a non-zero unit under the mask by 0.5
C14_Witness ==
    /\ layer.layer_type = "dropout" /\ pc = "fwd" /\ ~training
    /\ layer.drop_prob = 1
    /\ \E k \in DOMAIN arg.w :
         /\ layer.dropped[k]
         /\ arg.w[k] # 0
         /\ 2 * out_act.w[k] = arg.w[k]

\* C15: after DropoutLayer.forward in training mode the mask has one entry
\* per flat index of the input, the entry is the outcome drawn for that
\* index, a dropped unit's output is 0 and a kept unit's output is the input
\* value unscaled; after the backward that follows, the input gradient is
\* the upstream gradient at kept units and 0 at dropped units.
C15_TrainingMask ==
    (layer.layer_type = "dropout" /\ pc \in {"fwd", "grad", "bwd"} /\ training) =>
        /\ DOMAIN layer.dropped = DOMAIN arg.w
        /\ layer.dropped = rnd
        /\ \A k \in DOMAIN arg.w :
             \/ layer.dropped[k] /\ out_act.w[k] = 0
             \/ ~layer.dropped[k] /\ out_act.w[k] = arg.w[k]
        /\ pc = "bwd" =>
             \A k \in DOMAIN arg.w :
                in_act.dw[k] = IF layer.dropped[k] THEN 0 ELSE out_act.dw[k]

\* a training forward with drop_prob 0.5 dropped one non-zero unit and kept
\* the other, and backward ran with a non-zero upstream gradient at both
C15_Witness ==
    /\ layer.layer_type = "dropout" /\ pc = "bwd" /\ training
    /\ layer.drop_prob = 1
    /\ \E j, k \in DOMAIN arg.w :
         /\ layer.dropped[j] /\ ~layer.dropped[k]
         /\ arg.w[j] # 0 /\ out_act.w[j] = 0
         /\ arg.w[k] = 2 /\ out_act.w[k] = 2
         /\ out_act.dw[j] # 0 /\ in_act.dw[j] = 0
         /\ out_act.dw[k] # 0 /\ in_act.dw[k] = out_act.dw[k]

(***************************************************************************)
(* The loss layers' backward.                                              *)
(***************************************************************************)
\* the classes i # y with x_i - x_y + 1 > 0
Violating(x, y) ==
    {i \in 0..(Len(x) - 1) : i # y /\ (0 - x[y + 1]) + x[i + 1] + 1 > 0}

\* C16: SVMLayer.backward(y) with y a class index returns the sum over the
\* classes i # y of max(0, x_i - x_y + 1) and leaves the gradient +1 at every
\* violating class, minus the number of violating classes at y and 0
\* elsewhere; with no violating class the loss is 0 and the gradient is zero.
C16_SvmHinge ==
    (layer.layer_type = "svm" /\ pc = "bwd" /\ target.kind = "number"
        /\ target.v \in 0..(layer.out_depth - 1)) =>
        LET x == arg.w
            y == target.v
            Cls == 0..(layer.out_depth - 1)
        IN  /\ in_act.w = x
            /\ ret = Val(SumSet(Cls \ {y},
                           [i \in Cls |-> Max(0, x[i + 1] - x[y + 1] + 1)]))
            /\ \A i \in Cls :
                 in_act.dw[i + 1] =
                    IF i = y THEN 0 - Cardinality(Violating(x, y))
                    ELSE IF i \in Violating(x, y) THEN 1 ELSE 0
            /\ Violating(x, y) = {} =>
                 /\ ret = Val(0)
                 /\ \A k \in DOMAIN in_act.dw : in_act.dw[k] = 0

\* backward ran on three scores of which two violate the margin by
\* different amounts
C16_Witness ==
    /\ layer.layer_type = "svm" /\ pc = "bwd" /\ target.kind = "number"
    /\ target.v \in 0..(layer.out_depth - 1)
    /\ layer.out_depth = 3
    /\ Cardinality(Violating(arg.w, target.v)) = 2
    /\ in_act.dw[target.v + 1] = 0 - 2
    /\ ret = Val(3)

\* the dimensions RegressionLayer.backward(y) regresses
Regressed(L, y) ==
    IF y.kind \in {"array", "f64array"} THEN 0..(L.out_depth - 1)
    ELSE IF y.kind = "number" THEN {0}
    ELSE {y.dim}

\* the value y asks of dimension i
Wanted(y, i) ==
    IF y.kind \in {"array", "f64array"} THEN y.a[i + 1]
    ELSE IF y.kind = "number" THEN y.v
    ELSE y.val

\* C17: RegressionLayer.backward(y) leaves the gradient x_i - y_i at every
\* dimension for a vector target, at dimension 0 only for a scalar target and
\* at dimension dim only for a {dim, val} target, 0 at every other dimension,
\* and returns the sum of 0.5 * (x_i - y_i)^2 over the dimensions it wrote.
C17_RegressionGradient ==
    (layer.layer_type = "regression" /\ pc = "bwd") =>
        LET x == arg.w
            Dims == 0..(layer.out_depth - 1)
            D == Regressed(layer, target)
            sq == [i \in Dims |-> (x[i + 1] - Wanted(target, i))
                                    * (x[i + 1] - Wanted(target, i))]
        IN  /\ in_act.w = x
            /\ D \subseteq Dims
            /\ \A i \in Dims :
                 in_act.dw[i + 1] =
                    IF i \in D THEN x[i + 1] - Wanted(target, i) ELSE 0
            /\ ret = Half(SumSet(D, sq))

\* backward ran with a scalar target on three outputs of which one other
\* than output 0 differs from the target: only dimension 0 was written
C17_Witness ==
    /\ layer.layer_type = "regression" /\ pc = "bwd"
    /\ layer.out_depth = 3
    /\ target.kind = "number"
    /\ in_act.dw[1] # 0
    /\ \E k \in 2..3 : arg.w[k] # target.v /\ in_act.dw[k] = 0
    /\ ret = Half(in_act.dw[1] * in_act.dw[1])

(***************************************************************************)
(* Softmax forward.                                                        *)
(***************************************************************************)
\* V with c added to every score
Shifted(V, c) == [V EXCEPT !.w = [k \in DOMAIN V.w |-> V.w[k] + c]]

\* the constants added to every score
Shifts == {0 - 2 * MaxScore, 0 - MaxScore, 0 - 1, 1, MaxScore, 2 * MaxScore}

\* C18: the outputs of SoftmaxLayer.forward are the exp(s_i) / sum_j exp(s_j)
\* of one vector s of exponents, one output per score, so they sum to 1;
\* every exponent is at most 0 and one is 0, so no exp overflows and the sum
\* of the exps lies in [1, n], whatever the magnitude of the scores; and the
\* outputs are those forward gives when a constant is added to every score.
C18_SoftmaxNormalised ==
    (layer.layer_type = "softmax" /\ pc \in {"fwd", "bwd"}) =>
        LET p == out_act.w
            n == Len(arg.w)
        IN  /\ Len(p) = n
            /\ n = 1 => p[1] = 1
            /\ n > 1 =>
                 /\ \A i \in 1..n : p[i].sum = BagOf([j \in 1..n |-> p[j].e])
                 /\ \A i \in 1..n : p[i].e <= 0
                 /\ \E i \in 1..n : p[i].e = 0
                 /\ \A i, j \in 1..n : p[i].e - p[j].e = arg.w[i] - arg.w[j]
            /\ \A c \in Shifts :
                 SoftmaxLayer_forward(layer, Shifted(arg, c)).out.w = p

\* forward ran on three scores of large magnitude, not all equal
C18_Witness ==
    /\ layer.layer_type = "softmax" /\ pc = "fwd"
    /\ Len(arg.w) = 3
    /\ \E i, j \in 1..3 :
         /\ arg.w[i] >= MaxScore
         /\ arg.w[j] < arg.w[i]
         /\ out_act.w[i].e = 0
         /\ out_act.w[j].e < 0

(***************************************************************************)
(* The expansion of the layer definitions.                                 *)
(***************************************************************************)
\* a layer by its type, its neurons if fully connected and its drop_prob if
\* dropout
Descr(type, num_neurons, drop_prob) ==
    [type |-> type,
     num_neurons |-> IF type = "fc" THEN num_neurons ELSE 0,
     drop_prob |-> IF type = "dropout" THEN drop_prob ELSE 0]

Described(L) ==
    Descr(L.layer_type,
          IF L.layer_type = "fc" THEN L.out_depth ELSE 0,
          IF L.layer_type = "dropout" THEN L.drop_prob ELSE 0)

\* the layers one definition stands for
Yields(def) ==
    (IF def.type \in LossTypes THEN <<Descr("fc", def.num_classes, 0)>> ELSE <<>>)
    \o <<Descr(def.type,
               IF def.type = "fc" THEN def.num_neurons ELSE 0,
               IF Has(def, "drop_prob") THEN def.drop_prob ELSE 1)>>
    \o (IF Has(def, "activation") THEN <<Descr(def.activation, 0, 0)>> ELSE <<>>)
    \o (IF Has(def, "drop_prob") /\ def.type # "dropout"
        THEN <<Descr("dropout", 0, def.drop_prob)>> ELSE <<>>)

\* the layers the definitions from the i-th on stand for
RECURSIVE Expansion(_, _)
Expansion(ds, i) ==
    IF i > Len(ds) THEN <<>> ELSE Yields(ds[i]) \o Expansion(ds, i + 1)

\* C19: after makeLayers the layers are, definition by definition and in
\* order: a fully-connected layer of num_classes neurons before a loss layer,
\* the definition's own layer, the nonlinearity its activation names, a
\* dropout layer of its drop_prob unless it is a dropout definition itself;
\* and no other layer.
C19_DesugarOrder ==
    (op = "makeLayers" /\ err = "none") =>
        [j \in 1..Len(layers) |-> Described(layers[j])] = Expansion(defs, 1)

(***************************************************************************)
(* makeLayers' checks.                                                     *)
(***************************************************************************)
\* C20: makeLayers handed fewer than 2 definitions, or definitions of which
\* the first is not of type input, raises an error; and a call that raises
\* leaves net.layers as it was before the call.
C20_MakeLayersChecks ==
    [][op' = "makeLayers" =>
          /\ (Len(defs') < 2 \/ defs'[1].type # "input") => err' = "Error"
          /\ err' # "none" => layers' = layers]_vars

\* a makeLayers call on a built net raised: the net keeps its layers
C20_Witness ==
    /\ op = "makeLayers"
    /\ err = "Error"
    /\ Len(defs) >= 2 /\ defs[1].type # "input"
    /\ Len(layers) >= 2

(***************************************************************************)
(* The order of the layer calls of one call on the Net.                    *)
(***************************************************************************)
\* C21: net.backward(y) that returns has called backward(y) on the last
\* layer first, then backward() once on every layer before it in decreasing
\* index order down to the input layer, and returns the loss the last
\* layer's backward returned.
C21_BackwardOrder ==
    (op = "backward" /\ err = "none") =>
        LET N == Len(layers)
        IN  /\ Len(calls) = N
            /\ \A k \in 1..N :
                 /\ calls[k].method = "backward"
                 /\ calls[k].layer = N - k
                 /\ calls[k].y = IF k = 1 THEN target ELSE NoTarget
            /\ ret = calls[1].returned

\* C22: after net.forward(V, is_training) every layer's forward has run once,
\* in layer order; layer 0 was handed V, every later layer holds as in_act
\* the very object the layer before it holds as out_act, and the Vol
\* returned is the last layer's out_act.
C22_ForwardThreading ==
    (op = "forward") =>
        LET N == Len(layers)
        IN  /\ Len(calls) = N
            /\ calls[1].in_act = 0
            /\ acts[0] # NoVol
            /\ \A k \in 1..N :
                 /\ calls[k].method = "forward"
                 /\ calls[k].layer = k - 1
                 /\ calls[k].out_act # NoObject
                 /\ k < N => calls[k + 1].in_act = calls[k].out_act
            /\ calls[N].returned = calls[N].out_act

\* forward ran through a net with a relu layer: the layer after it holds the
\* Vol the relu layer made, the layer after the input layer holds V
C22_Witness ==
    /\ op = "forward"
    /\ Len(layers) >= 5
    /\ calls[2].in_act = 0
    /\ \E k \in 2..(Len(layers) - 1) :
         /\ layers[k].layer_type = "relu"
         /\ calls[k].out_act = k
         /\ calls[k + 1].in_act = k

(***************************************************************************)
(* The parameters and gradients handed to the trainer.                     *)
(***************************************************************************)
\* the number of entries layer L contributes
Entries(L) == IF L.layer_type \in {"conv", "fc"} THEN L.out_depth + 1 ELSE 0

\* the number of entries the layers before the i-th contribute
EntriesBefore(ls, i) == SumOver(1, i - 1, [j \in 1..(i - 1) |-> Entries(ls[j])])

\* C23: the response of net.getParamsAndGrads() is, layer after layer in
\* layer order, for a conv or fully-connected layer its out_depth filters in
\* filter order, each with its own w as params and its own dw as grads,
\* followed by one entry for its biases with both decay multipliers 0; the
\* other layers contribute nothing.
C23_ParamsInLayerOrder ==
    (response # <<>>) =>
        /\ Len(response) = EntriesBefore(layers, Len(layers) + 1)
        /\ \A i \in 1..Len(layers) :
             layers[i].layer_type \in {"conv", "fc"} =>
                LET at == EntriesBefore(layers, i)
                    n  == layers[i].out_depth
                IN  /\ \A k \in 1..n :
                         /\ response[at + k].params = FilterArray(i - 1, k - 1, "w")
                         /\ response[at + k].grads = FilterArray(i - 1, k - 1, "dw")
                    /\ response[at + n + 1] =
                         [params |-> BiasArray(i - 1, "w"),
                          grads |-> BiasArray(i - 1, "dw"),
                          l1_decay_mul |-> 0, l2_decay_mul |-> 0]

\* getParamsAndGrads ran on a net with a conv layer, other layers and a
\* fully-connected layer of two neurons behind them
C23_Witness ==
    /\ response # <<>>
    /\ Len(layers) >= 5
    /\ layers[2].layer_type = "conv"
    /\ Len(response) = 5
    /\ response[5].params = BiasArray(Len(layers) - 2, "w")
    /\ response[5].l2_decay_mul = 0

\* the layer that keeps the k-th parameter array of the net, in layer order
OwnLayer(ls, k) ==
    CHOOSE i \in DOMAIN ls :
        EntriesBefore(ls, i) < k /\ k <= EntriesBefore(ls, i) + Entries(ls[i])

\* the w or dw of the k-th parameter array of the net, read from its layer
Own(ls, k, array) ==
    LET i == OwnLayer(ls, k)
        n == k - EntriesBefore(ls, i)
    IN  IF n <= ls[i].out_depth THEN ls[i].filters[n][array]
        ELSE ls[i].biases[array]

\* the k-th parameter array belongs to a fully-connected layer
InFullyConn(ls, k) == ls[OwnLayer(ls, k)].layer_type = "fc"

\* the gradient one backward of a fully-connected layer computes for the
\* k-th parameter array, from the activations as that backward left them
CycleGradient(ls, as, k) ==
    LET i == OwnLayer(ls, k)
        n == k - EntriesBefore(ls, i)
    IN  IF n <= ls[i].out_depth
        THEN [d \in DOMAIN as[i - 1].w |-> as[i - 1].w[d] * as[i].dw[n]]
        ELSE as[i].dw

\* the output a fully-connected layer computes with the caller's value in
\* the place it was written to
WithWritten(ls, as, wr) ==
    LET i == OwnLayer(ls, wr.entry)
        m == wr.entry - EntriesBefore(ls, i)
        W(n, d) == IF n = m /\ d = wr.index THEN wr.value
                   ELSE ls[i].filters[n].w[d]
        B(n) == IF m > ls[i].out_depth /\ n = wr.index THEN wr.value
                ELSE ls[i].biases.w[n]
    IN  [n \in 1..ls[i].out_depth |->
            SumOver(1, Len(as[i - 1].w),
                    [d \in DOMAIN as[i - 1].w |-> as[i - 1].w[d] * W(n, d)])
              + B(n)]

\* C24: the params and grads arrays of a response of getParamsAndGrads are
\* the layers' own arrays and stay so over later forward and backward calls:
\* a value the caller writes into a params array is in the layer's weights,
\* the next forward of a fully-connected layer computes with it, and after
\* every later backward that returns the grads array holds what it held
\* before plus the gradient of that backward.
C24_ArraysShared ==
    [][/\ (response' # <<>>) =>
            \A k \in DOMAIN response' :
                /\ Array(layers', response'[k].params) = Own(layers', k, "w")
                /\ Array(layers', response'[k].grads) = Own(layers', k, "dw")
       /\ (written' # NoWrite) =>
            /\ Own(layers', written'.entry, "w")[written'.index] = written'.value
            /\ (op' = "forward" /\ InFullyConn(layers', written'.entry)) =>
                  acts'[OwnLayer(layers', written'.entry)].w
                      = WithWritten(layers', acts', written')
       /\ (response # <<>> /\ op # "backward" /\ op' = "backward" /\ err' = "none") =>
            \A k \in DOMAIN response :
                InFullyConn(layers, k) =>
                    Array(layers', response[k].grads)
                        = [d \in DOMAIN Own(layers, k, "dw") |->
                              Own(layers, k, "dw")[d]
                                  + CycleGradient(layers', acts', k)[d]]
      ]_vars

\* the caller wrote a weight of a fully-connected layer, a forward used it
\* and the backward after it left a gradient other than zero in an array of
\* the response
C24_Witness ==
    /\ written # NoWrite
    /\ InFullyConn(layers, written.entry)
    /\ op = "backward"
    /\ err = "none"
    /\ \E k \in DOMAIN response :
         \E d \in DOMAIN Array(layers, response[k].grads) :
             Array(layers, response[k].grads)[d] # 0

\* the class probabilities the final layer cached, as the exponents of their
\* numerators (one class: the probability 1)
Cached(as, N) ==
    [k \in DOMAIN as[N].w |-> IF Len(as[N].w) = 1 THEN 0 ELSE as[N].w[k].e]

\* C25: net.getPrediction() fails with an error whenever the final layer is
\* not softmax (or there is none); when it is softmax and a forward has run,
\* it returns the lowest index that holds the maximum cached probability.
C25_Prediction ==
    (op = "getPrediction") =>
        /\ (layers = <<>> \/ Last(layers).layer_type # "softmax") => err # "none"
        /\ (/\ layers # <<>>
            /\ Last(layers).layer_type = "softmax"
            /\ Len(layers) \in DOMAIN acts
            /\ Has(acts[Len(layers)], "w")) =>
              /\ err = "none"
              /\ \E m \in DOMAIN acts[Len(layers)].w :
                   /\ ret = Val(m - 1)
                   /\ \A k \in DOMAIN acts[Len(layers)].w :
                        /\ Cached(acts, Len(layers))[k] <= Cached(acts, Len(layers))[m]
                        /\ k < m => Cached(acts, Len(layers))[k]
                                        < Cached(acts, Len(layers))[m]

\* getPrediction returned 0 after a forward that left two equal probabilities
C25_Witness ==
    /\ op = "getPrediction"
    /\ err = "none"
    /\ Len(acts[Len(layers)].w) = 2
    /\ Cached(acts, Len(layers))[1] = Cached(acts, Len(layers))[2]
    /\ ret = Val(0)

\* C26: after makeLayers returned, every layer but the first was handed the
\* output dimensions of the layer before it as in_sx, in_sy and in_depth, in
\* every list of the model, desugared entries included.  A conv or pool layer
\* keeps the three as handed; a fully-connected or loss layer keeps their
\* product as num_inputs; a maxout layer keeps in_sx and in_sy as its output
\* size and in_depth divided by group_size as its output depth; the other
\* layers keep them as their output dimensions.
C26_DimsChain ==
    (op = "makeLayers" /\ err = "none") =>
        \A i \in 2..Len(layers) :
            LET prev == layers[i - 1]
                L    == layers[i]
            IN  IF Has(L, "in_sx")
                THEN /\ L.in_sx = prev.out_sx
                     /\ L.in_sy = prev.out_sy
                     /\ L.in_depth = prev.out_depth
                ELSE IF Has(L, "num_inputs")
                THEN L.num_inputs = prev.out_sx * prev.out_sy * prev.out_depth
                ELSE IF L.layer_type = "maxout"
                THEN /\ L.out_sx = prev.out_sx
                     /\ L.out_sy = prev.out_sy
                     /\ L.out_depth = prev.out_depth \div L.group_size
                ELSE /\ L.out_sx = prev.out_sx
                     /\ L.out_sy = prev.out_sy
                     /\ L.out_depth = prev.out_depth

\* makeLayers built conv, relu, pool, fc and svm behind a 2x2 input: the pool
\* layer was handed the 3x3 output of the padded convolution
C26_Witness ==
    /\ op = "makeLayers"
    /\ err = "none"
    /\ Len(layers) = 6
    /\ layers[2].layer_type = "conv"
    /\ layers[4].layer_type = "pool"
    /\ layers[4].in_sx = 3
    /\ layers[5].num_inputs = 1

\* the activations with every gradient set to zero
ZeroGrads(as) ==
    [k \in DOMAIN as |->
        IF Has(as[k], "dw") THEN [as[k] EXCEPT !.dw = zeros(Len(as[k].w))]
        ELSE as[k]]

\* C27: every backward of a layer other than the input layer starts by
\* replacing the gradient of its input Vol with zeros of the length of w, so
\* whatever forward and backward calls came before, after a net.backward
\* that returns every activation has a dw as long as its w, and the
\* gradients are those the same backward leaves when every activation
\* gradient was zero before it: nothing of an earlier pass is carried over.
C27_GradientsFresh ==
    [][/\ \A k \in DOMAIN acts' :
            Has(acts'[k], "dw") => Len(acts'[k].dw) = Len(acts'[k].w)
       /\ (op' = "backward" /\ err' = "none" /\ response' = response) =>
            /\ \A k \in DOMAIN acts' : Has(acts'[k], "dw")
            /\ acts' = Net_backward(layers, ZeroGrads(acts), target').acts
      ]_vars

\* a fully-connected layer ran backward twice: its bias gradient is twice
\* the gradient of its output, and the gradient of its input is not zero
C27_Witness ==
    /\ op = "backward"
    /\ err = "none"
    /\ \E i \in 2..Len(layers) :
         /\ layers[i].layer_type = "fc"
         /\ layers[i].biases.dw = [n \in DOMAIN acts[i].dw |-> 2 * acts[i].dw[n]]
         /\ \E n \in DOMAIN acts[i].dw : acts[i].dw[n] # 0
         /\ \E d \in DOMAIN acts[i - 1].dw : acts[i - 1].dw[d] # 0

\* the input Vol as backward finds it after zeroing its gradient
Zeroed(V) == [V EXCEPT !.dw = zeros(Len(V.w))]

\* C28: for a maxout layer with a 1x1 output, on every input and every
\* group_size that divides in_depth, the branch over the flat buffer and the
\* branch over the (x, y) coordinates give the same output values and the
\* same switches in forward, and the same input gradients in backward.
C28_MaxoutPathsAgree ==
    (/\ layer.layer_type = "maxout"
     /\ layer.out_sx = 1 /\ layer.out_sy = 1
     /\ pc \in {"fwd", "grad", "bwd"}
     /\ Len(in_act.w) = layer.out_depth * layer.group_size) =>
        LET st == [layer |-> layer,
                   out |-> Vol(layer.out_sx, layer.out_sy, layer.out_depth, 0)]
        IN  /\ /\ out_act.w = MaxoutLayer_forward_flat(st, in_act, 0).out.w
                 /\ out_act.w = MaxoutLayer_forward_xy(st, in_act, 0).out.w
                 /\ layer.switches
                       = MaxoutLayer_forward_flat(st, in_act, 0).layer.switches
                 /\ layer.switches
                       = MaxoutLayer_forward_xy(st, in_act, 0).layer.switches
            /\ (pc = "bwd") =>
                 /\ in_act = MaxoutLayer_backward_flat(layer, Zeroed(in_act), out_act, 0)
                 /\ in_act = MaxoutLayer_backward_xy(layer, Zeroed(in_act), out_act, 0)

\* a 1x1 maxout layer of three groups of two ran forward and backward: a
\* later group's winner is recorded and a gradient reached the input
C28_Witness ==
    /\ layer.layer_type = "maxout"
    /\ layer.out_sx = 1 /\ layer.out_sy = 1
    /\ layer.out_depth = 3 /\ layer.group_size = 2
    /\ pc = "bwd"
    /\ Len(layer.switches) = 3
    /\ layer.switches[3] = 5
    /\ \E d \in DOMAIN in_act.dw : in_act.dw[d] # 0

\* C29: a backward of a dropout layer that follows a forward in inference
\* mode treats no unit as dropped, whatever forwards in training mode came
\* before on the layer: the gradient of its input is the gradient of its
\* output at every position.
C29_InferenceBackwardCopies ==
    (layer.layer_type = "dropout" /\ pc = "bwd" /\ ~training) =>
        in_act.dw = out_act.dw

\* C29 where no forward in training mode came before the forward in
\* inference mode: the mask is still the constructor's or the reloaded one
C29_FreshMask ==
    (/\ layer.layer_type = "dropout" /\ pc = "bwd" /\ ~training
     /\ \A k \in DOMAIN in_act.w : ~Dropped(layer, k - 1)) =>
        in_act.dw = out_act.dw

\* the layers with every parameter gradient at zero
ZeroParams(ls) ==
    [i \in DOMAIN ls |->
        IF ls[i].layer_type \in {"conv", "fc"} THEN ZeroedParamGrads(ls[i])
        ELSE ls[i]]

\* the sum, array by array, of two lots of parameter gradients of one net
GradSum(a, b) ==
    [i \in DOMAIN a |->
        [filters |-> [j \in DOMAIN a[i].filters |->
                        [d \in DOMAIN a[i].filters[j] |->
                            a[i].filters[j][d] + b[i].filters[j][d]]],
         biases  |-> [d \in DOMAIN a[i].biases |-> a[i].biases[d] + b[i].biases[d]]]]

\* C30: the backward of a conv or fully-connected layer adds to the
\* gradients of its filters and biases and never zeroes them: a net.backward
\* that returns leaves every parameter gradient at what it was plus the
\* gradient this backward computes (the one it leaves when the parameter
\* gradients were zero before), so that with no reset from outside k cycles
\* leave the sum of their k gradients; forward, getCostLoss and
\* getParamsAndGrads leave the parameter gradients as they are.
C30_GradientsAccumulate ==
    [][IF op' = "backward" /\ response' = response
       THEN (err' = "none") =>
                \E a \in {Net_grads(layers)}, zeroed \in {ZeroParams(layers)} :
                    \E g \in {Net_grads(Net_backward(zeroed, acts, target').layers)} :
                        Net_grads(layers') = GradSum(a, g)
       ELSE Net_grads(layers') = Net_grads(layers)
      ]_vars

\* backward ran more than once on a net with a conv layer: the gradient of
\* the conv biases is not zero and is not the sum of the gradients of the
\* conv output, which is what the last backward alone adds to it
C30_Witness ==
    /\ op = "backward"
    /\ err = "none"
    /\ layers[2].layer_type = "conv"
    /\ layers[2].biases.dw[1] # 0
    /\ SeqSum(acts[2].dw) # 0
    /\ layers[2].biases.dw[1] # SeqSum(acts[2].dw)

=============================================================================
